---------------------------- MODULE Spec2Model ----------------------------
(***************************************************************************)
(* cmdproxy.rs: the parameter-resolution and middleware pipeline.          *)
(*                                                                         *)
(* A client run and the server task it triggers are modelled as one       *)
(* system over a shared bucket.  Strings that are rendered or parsed       *)
(* (values, paths, templates, recipes) are sequences of tokens; names and   *)
(* file contents are atoms.                                                *)
(***************************************************************************)
EXTENDS Integers, Sequences, FiniteSets, TLC

VARIABLES
    request,    \* the RunRequest handed to Client::run, or the foreign payload
    queue,      \* the queue argument of Client::run (an Option)
    pipe,       \* per side: position inside apply_middles! and the value in flight
    inv,        \* per side: the invoke middleware (guards, passed_env, futures)
    calls,      \* per side: the middleware calls made so far, in order
    bucket,     \* the object store: cloud key -> content
    localFs,    \* the client's files: filepath -> content
    serverFs,   \* the worker's files (its scratch directory): path -> content
    wire,       \* the broker: payload delivered to the server and its outcome
    child,      \* the child of real_run: its ExitStatus once it was waited for
    conv        \* a Param under conversion: its as_cloud chain and their cloud_urls

vars == <<request, queue, pipe, inv, calls, bucket, localFs, serverFs, wire,
          child, conv>>

-----------------------------------------------------------------------------
(* Bounds of the model *)

\* longest args vector of a request
MaxArgs == 2
\* deepest nesting of Format params
MaxDepth == 2
\* largest exit code a child process reports
MaxExitCode == 1
\* most applications of as_cloud in a row
MaxChain == 2

-----------------------------------------------------------------------------
(* Options and results *)

None == [some |-> FALSE]

Some(x) == [some |-> TRUE, v |-> x]

Ok(x) == [ok |-> TRUE, v |-> x]

Err(e) == [ok |-> FALSE, e |-> e]

Sides == {"client", "server"}

-----------------------------------------------------------------------------
(* params.rs: the Param algebra *)

StrParam(value) == [t |-> "StrParam", value |-> value]

EnvParam(name) == [t |-> "EnvParam", name |-> name]

RemoteEnvParam(name) == [t |-> "RemoteEnvParam", name |-> name]

CmdNameParam(name) == [t |-> "CmdNameParam", name |-> name]

CmdPathParam(path) == [t |-> "CmdPathParam", path |-> path]

InLocalFileParam(filepath, hostname) ==
    [t |-> "InLocalFileParam", filepath |-> filepath, hostname |-> hostname]

OutLocalFileParam(filepath, hostname) ==
    [t |-> "OutLocalFileParam", filepath |-> filepath, hostname |-> hostname]

InCloudFileParam(filepath, hostname) ==
    [t |-> "InCloudFileParam", filepath |-> filepath, hostname |-> hostname]

OutCloudFileParam(filepath, hostname) ==
    [t |-> "OutCloudFileParam", filepath |-> filepath, hostname |-> hostname]

FormatParam(tmpl, args) == [t |-> "FormatParam", tmpl |-> tmpl, args |-> args]

is_input(p) == p.t \in {"InLocalFileParam", "InCloudFileParam"}

is_output(p) == p.t \in {"OutLocalFileParam", "OutCloudFileParam"}

is_local(p) == p.t \in {"InLocalFileParam", "OutLocalFileParam"}

is_cloud(p) == p.t \in {"InCloudFileParam", "OutCloudFileParam"}

\* a conversion that flips the direction of a cloud variant
as_cloud_flipped(p) ==
    CASE p.t = "InLocalFileParam" -> InCloudFileParam(p.filepath, p.hostname)
      [] p.t = "OutLocalFileParam" -> OutCloudFileParam(p.filepath, p.hostname)
      [] p.t = "InCloudFileParam" -> OutCloudFileParam(p.filepath, p.hostname)
      [] p.t = "OutCloudFileParam" -> InCloudFileParam(p.filepath, p.hostname)
      [] OTHER -> [t |-> "(panic)"]

\* as_cloud is unreachable!() on a non-file variant: "(panic)" stands for it
as_cloud(p) ==
    CASE p.t = "InLocalFileParam" -> InCloudFileParam(p.filepath, p.hostname)
      [] p.t = "OutLocalFileParam" -> OutCloudFileParam(p.filepath, p.hostname)
      [] p.t = "InCloudFileParam" -> p
      [] p.t = "OutCloudFileParam" -> p
      [] OTHER -> [t |-> "(panic)"]

\* a key that tells the variants apart
cloud_url_by_variant(p) == <<"@", p.hostname, ":", p.filepath, p.t>>

\* format!("@{hostname}:{filepath}")
cloud_url(p) == <<"@", p.hostname, ":", p.filepath>>

-----------------------------------------------------------------------------
(* protocol.rs: RunSpecification<P> *)

RunSpecification(command, args, env, stdout, stderr) ==
    [command |-> command, args |-> args, cwd |-> None, env |-> env,
     stdout |-> stdout, stderr |-> stderr]

RunResponse(return_code, exc) == [return_code |-> return_code, exc |-> exc]

-----------------------------------------------------------------------------
(* The world of one run: hosts, files, environments, palette *)

Host == "h1"

fa == <<"/in/", "a">>

fb == <<"/in/", "b">>

fx == <<"/out/", "x">>

fy == <<"/out/", "y">>

\* the client's files before the run
InitLocalFs == [p \in {fa, fb} |-> IF p = fa THEN "A" ELSE "B"]

\* std::env of the client process and of the worker process
ClientOsEnv == [n \in {"HOME"} |-> <<"/home/c">>]

ServerOsEnv == [n \in {"HOME"} |-> <<"/home/s">>]

\* CmdProxyServerConf.command_palette
Palette == [n \in {"sh"} |-> <<"/bin/sh">>]

\* paths the worker can spawn
Executables == {<<"/bin/sh">>, <<"/bin/false">>}

\* HashMap iteration order is unspecified: the model iterates every map in
\* one of the two directions of NameRank
NameRank ==
    [n \in {"HOME", "K", "P", "f", "i", "o", "p", "z"} |->
        CASE n = "HOME" -> 1 [] n = "K" -> 2 [] n = "P" -> 3 [] n = "f" -> 4
          [] n = "i" -> 5 [] n = "o" -> 6 [] n = "p" -> 7 [] OTHER -> 8]

Ordered(S, rev) ==
    CHOOSE s \in [1..Cardinality(S) -> S] :
        \A i, j \in 1..Cardinality(S) :
            i < j => IF rev THEN NameRank[s[i]] > NameRank[s[j]]
                            ELSE NameRank[s[i]] < NameRank[s[j]]

-----------------------------------------------------------------------------
(* Positions of params inside a request *)

\* the futures joined by guard_run_args, in the order of its iterator chain
JoinList(req) ==
    <<(<<"command">>)>>
    \o (IF req.stdout.some THEN <<(<<"stdout">>)>> ELSE <<>>)
    \o (IF req.stderr.some THEN <<(<<"stderr">>)>> ELSE <<>>)
    \o [i \in 1..Len(req.args) |-> <<"args", ToString(i)>>]

EnvKeys(req) == IF req.env.some THEN DOMAIN req.env.v ELSE {}

TopLen(path) == IF path[1] \in {"args", "env"} THEN 2 ELSE 1

IsTop(path) == Len(path) = TopLen(path)

Parent(path) == SubSeq(path, 1, Len(path) - 1)

TopParam(req, path) ==
    CASE path[1] = "command" -> req.command
      [] path[1] = "stdout" -> req.stdout.v
      [] path[1] = "stderr" -> req.stderr.v
      [] path[1] = "args" ->
            req.args[CHOOSE i \in 1..Len(req.args) : ToString(i) = path[2]]
      [] path[1] = "env" -> req.env.v[path[2]]

RECURSIVE Descend(_, _)
Descend(p, rest) ==
    IF rest = <<>> THEN p ELSE Descend(p.args[Head(rest)], Tail(rest))

ParamAt(req, path) ==
    Descend(TopParam(req, path), SubSeq(path, TopLen(path) + 1, Len(path)))

RECURSIVE SubPaths(_, _)
SubPaths(prefix, p) ==
    {prefix} \cup
    (IF p.t = "FormatParam"
        THEN UNION {SubPaths(Append(prefix, n), p.args[n]) : n \in DOMAIN p.args}
        ELSE {})

TopPaths(req) ==
    {JoinList(req)[i] : i \in 1..Len(JoinList(req))}
    \cup {<<"env", k>> : k \in EnvKeys(req)}

AllPaths(req) == UNION {SubPaths(t, TopParam(req, t)) : t \in TopPaths(req)}

RECURSIVE Depth(_)
Depth(p) ==
    IF p.t # "FormatParam" THEN 0
    ELSE 1 + (IF DOMAIN p.args = {} THEN 0
              ELSE LET ds == {Depth(p.args[n]) : n \in DOMAIN p.args}
                   IN CHOOSE d \in ds : \A e \in ds : e <= d)

ReqDepth(req) ==
    LET ds == {Depth(TopParam(req, t)) : t \in TopPaths(req)}
    IN CHOOSE d \in ds : \A e \in ds : e <= d

-----------------------------------------------------------------------------
(* The requests and payloads a run starts from *)

Shell == CmdNameParam("sh")

InA == InLocalFileParam(fa, Host)

InB == InLocalFileParam(fb, Host)

OutX == OutLocalFileParam(fx, Host)

OutY == OutLocalFileParam(fy, Host)

Dash == StrParam(<<"-c">>)

CatTmpl == <<"cat ", "{", "i", "}", " > ", "{", "o", "}">>

\* [req, queue] pairs handed to Client::run
ClientInputs ==
    { \* echo with local input and output
      [req |-> RunSpecification(Shell,
                  <<Dash, FormatParam(CatTmpl, [n \in {"i", "o"} |->
                                        IF n = "i" THEN InA ELSE OutX])>>,
                  None, None, None),
       queue |-> None],
      \* two local inputs
      [req |-> RunSpecification(Shell, <<InA, InB>>, None, None, None),
       queue |-> None],
      \* captured stdout and stderr
      [req |-> RunSpecification(Shell, <<Dash>>, None, Some(OutX), Some(OutY)),
       queue |-> None],
      \* captured stderr alone
      [req |-> RunSpecification(Shell, <<Dash>>, None, None, Some(OutY)),
       queue |-> None],
      \* passed env, referenced from a template
      [req |-> RunSpecification(CmdPathParam(<<"/bin/sh">>),
                  <<FormatParam(<<"echo ", "{", "p", "}">>,
                                [n \in {"p"} |-> RemoteEnvParam("K")]),
                    RemoteEnvParam("K")>>,
                  Some([n \in {"K"} |-> StrParam(<<"pw">>)]), Some(OutX), None),
       queue |-> Some("sh")],
      \* client-side env lookups: one set, one unset
      [req |-> RunSpecification(Shell, <<EnvParam("HOME"), RemoteEnvParam("HOME")>>,
                  Some([n \in {"HOME", "K"} |->
                          IF n = "K" THEN RemoteEnvParam("HOME")
                                     ELSE StrParam(<<"/pw">>)]),
                  None, None),
       queue |-> None],
      [req |-> RunSpecification(Shell, <<EnvParam("K"), InA>>, None, None, None),
       queue |-> None],
      \* an env value the client cannot resolve
      [req |-> RunSpecification(Shell, <<InA>>,
                  Some([n \in {"K"} |-> EnvParam("K")]), None, None),
       queue |-> None],
      \* command not in the palette
      [req |-> RunSpecification(CmdNameParam("nonesuch"), <<>>, None, None, None),
       queue |-> None],
      [req |-> RunSpecification(CmdNameParam("nonesuch"), <<InA>>, None,
                  Some(OutX), None),
       queue |-> None],
      \* a command path, with and without a queue
      [req |-> RunSpecification(CmdPathParam(<<"/bin/false">>), <<>>, None, None, None),
       queue |-> Some("sh")],
      [req |-> RunSpecification(CmdPathParam(<<"/bin/false">>), <<>>, None, None, None),
       queue |-> None],
      [req |-> RunSpecification(CmdPathParam(<<"/bin/none">>), <<>>, None,
                  Some(OutX), None),
       queue |-> Some("sh")],
      \* a command that is neither a name nor a path
      [req |-> RunSpecification(StrParam(<<"/bin/sh">>), <<>>, None, None, None),
       queue |-> Some("sh")],
      \* an output and an input side by side; the same file as input and output
      [req |-> RunSpecification(Shell, <<OutX, InA>>, None, None, None),
       queue |-> Some("q")],
      [req |-> RunSpecification(Shell, <<InA, OutLocalFileParam(fa, Host)>>,
                  None, None, None),
       queue |-> None],
      \* nested templates
      [req |-> RunSpecification(Shell,
                  <<FormatParam(<<"{", "f", "}">>, [n \in {"f"} |->
                      FormatParam(<<"<", "{", "i", "}">>, [m \in {"i"} |-> InA])])>>,
                  None, None, None),
       queue |-> None],
      [req |-> RunSpecification(Shell,
                  <<FormatParam(<<"{", "f", "}">>, [n \in {"f"} |->
                      FormatParam(<<"{", "f", "}">>, [m \in {"f"} |->
                          FormatParam(<<"{", "o", "}">>, [k \in {"o"} |-> OutX])])])>>,
                  None, None, None),
       queue |-> None],
      \* server-side env lookups: set on the worker, passed, and neither
      [req |-> RunSpecification(Shell,
                  <<FormatParam(<<"{", "i", "}", "{", "o", "}">>,
                                [n \in {"i", "o"} |->
                                    IF n = "i" THEN RemoteEnvParam("HOME")
                                               ELSE RemoteEnvParam("Z")]),
                    RemoteEnvParam("K")>>,
                  Some([n \in {"K"} |-> StrParam(<<"pw">>)]), None, None),
       queue |-> None],
      \* an env value that names another key of the same env
      [req |-> RunSpecification(Shell, <<Dash>>,
                  Some([n \in {"K", "P"} |->
                          IF n = "P" THEN RemoteEnvParam("K")
                                     ELSE StrParam(<<"pw">>)]),
                  None, None),
       queue |-> None],
      \* a value that reads like a placeholder of its own template
      [req |-> RunSpecification(Shell,
                  <<FormatParam(<<"{", "p", "}">>,
                                [n \in {"p"} |-> StrParam(<<"{", "p", "}">>)])>>,
                  None, None, None),
       queue |-> None],
      \* a template over plain strings
      [req |-> RunSpecification(Shell,
                  <<Dash, FormatParam(<<"echo ", "{", "s", "}">>,
                                      [n \in {"s"} |-> StrParam(<<"hi">>)])>>,
                  None, None, None),
       queue |-> None],
      \* a template naming a placeholder its args lack
      [req |-> RunSpecification(Shell,
                  <<FormatParam(<<"{", "z", "}">>, [n \in {"i"} |-> Dash])>>,
                  None, None, None),
       queue |-> None],
      \* cloud params given by the caller, the input never uploaded
      [req |-> RunSpecification(Shell, <<InCloudFileParam(fb, Host)>>, None,
                  Some(OutCloudFileParam(fy, Host)), None),
       queue |-> None],
      \* three args
      [req |-> RunSpecification(Shell, <<InA, OutX, Dash>>, None, None, None),
       queue |-> None]
    }

\* payloads put on a queue by another producer
ForeignPayloads ==
    { [kind |-> "garbage"],
      [kind |-> "json", doc |-> [args |-> <<>>]],
      [kind |-> "json",
       doc |-> RunSpecification(Shell, <<InA>>, None, None, None)],
      [kind |-> "json",
       doc |-> RunSpecification(Shell, <<Dash>>, None, Some(OutX), None)],
      [kind |-> "json",
       doc |-> RunSpecification(Shell, <<RemoteEnvParam("HOME")>>, None, None, None)],
      [kind |-> "json",
       doc |-> RunSpecification(Shell, <<Dash>>, None, Some(StrParam(<<>>)), None)]
    }

Inputs ==
    {i \in ClientInputs : Len(i.req.args) <= MaxArgs /\ ReqDepth(i.req) <= MaxDepth}

-----------------------------------------------------------------------------
(* middles/invoke: guards and their enter *)

Finished(task) == task.st \in {"ok", "err"}

\* guards whose enter awaits the bucket
IOEnter(side, p) ==
    \/ side = "client" /\ p.t = "InLocalFileParam"
    \/ side = "server" /\ p.t = "InCloudFileParam"

\* server_end guard_param: param => unreachable!("Unaccepted Param ...")
Unaccepted(side, p) ==
    side = "server"
    /\ p.t \in {"InLocalFileParam", "OutLocalFileParam", "RemoteEnvParam"}

\* an allocation named by the suffix alone
new_temppath_by_suffix(n, filepath) ==
    <<"/w/", ".tmp">>
    \o (IF filepath = <<>> THEN <<>> ELSE <<filepath[Len(filepath)]>>)

\* server_end guard_param: a fresh name in the tempdir, suffixed by the
\* file name of the param's filepath; the file itself is removed again
new_temppath(n, filepath) ==
    <<"/w/", ".tmp", ToString(n)>>
    \o (IF filepath = <<>> THEN <<>> ELSE <<filepath[Len(filepath)]>>)

\* an enter that hands a RemoteEnv back as it came
ClientEnterVerbatim(p, path) ==
    CASE p.t = "EnvParam" ->
            IF p.name \in DOMAIN ClientOsEnv
                THEN Ok(StrParam(ClientOsEnv[p.name]))
                ELSE Err([kind |-> "VarError", at |-> path])
      [] p.t \in {"OutCloudFileParam", "OutLocalFileParam"} -> Ok(as_cloud(p))
      [] OTHER -> Ok(p)

\* client_end: enter of the guards that do not touch the bucket
ClientEnter(p, path) ==
    CASE p.t = "StrParam" -> Ok(StrParam(p.value))
      [] p.t = "EnvParam" ->
            IF p.name \in DOMAIN ClientOsEnv
                THEN Ok(StrParam(ClientOsEnv[p.name]))
                ELSE Err([kind |-> "VarError", at |-> path])
      [] p.t = "RemoteEnvParam" -> Ok(EnvParam(p.name))
      [] p.t = "CmdNameParam" -> Ok(CmdNameParam(p.name))
      [] p.t = "CmdPathParam" -> Ok(CmdPathParam(p.path))
      [] p.t = "InCloudFileParam" -> Ok(p)
      [] p.t = "OutCloudFileParam" -> Ok(as_cloud(p))
      [] p.t = "OutLocalFileParam" -> Ok(as_cloud(p))

\* an enter that reads the process environment only
ServerEnvEnterOsOnly(name, passed_env) ==
    IF name \in DOMAIN ServerOsEnv THEN ServerOsEnv[name] ELSE <<>>

\* an enter that prefers the passed env to the process environment
ServerEnvEnterPassedFirst(name, passed_env) ==
    IF name \in DOMAIN passed_env THEN passed_env[name]
    ELSE IF name \in DOMAIN ServerOsEnv THEN ServerOsEnv[name]
    ELSE <<>>

\* server_end: EnvGuard::enter
ServerEnvEnter(name, passed_env) ==
    IF name \in DOMAIN ServerOsEnv THEN ServerOsEnv[name]
    ELSE IF name \in DOMAIN passed_env THEN passed_env[name]
    ELSE <<>>

\* an enter that takes a name the palette lacks for the path of the command
CmdNameEnterVerbatim(name, path) ==
    Ok(IF name \in DOMAIN Palette THEN Palette[name] ELSE <<name>>)

\* server_end: CmdNameGuard::enter
CmdNameEnter(name, path) ==
    IF name \in DOMAIN Palette
        THEN Ok(Palette[name])
        ELSE Err([kind |-> "CommandNotFound", name |-> name,
                  palette |-> DOMAIN Palette, at |-> path])

\* server_end: enter of the guards that do not touch the bucket
ServerEnter(p, path, passed_env, temppath) ==
    CASE p.t = "StrParam" -> Ok(p.value)
      [] p.t = "EnvParam" -> Ok(ServerEnvEnter(p.name, passed_env))
      [] p.t = "CmdNameParam" -> CmdNameEnter(p.name, path)
      [] p.t = "CmdPathParam" -> Ok(p.path)
      [] p.t = "OutCloudFileParam" -> Ok(temppath)

\* a rendering that leaves a placeholder it cannot resolve in the output
RECURSIVE strfmt_lenient(_, _, _)
strfmt_lenient(tmpl, args, path) ==
    IF tmpl = <<>> THEN Ok(<<>>)
    ELSE IF Head(tmpl) = "{" /\ Len(tmpl) >= 3 /\ tmpl[3] = "}"
            /\ tmpl[2] \in DOMAIN args
        THEN LET rest == strfmt_lenient(SubSeq(tmpl, 4, Len(tmpl)), args, path)
             IN Ok(args[tmpl[2]] \o rest.v)
    ELSE LET rest == strfmt_lenient(Tail(tmpl), args, path)
         IN Ok(<<Head(tmpl)>> \o rest.v)

\* strfmt(tmpl, args): named placeholders replaced in one pass
RECURSIVE strfmt(_, _, _)
strfmt(tmpl, args, path) ==
    IF tmpl = <<>> THEN Ok(<<>>)
    ELSE IF Head(tmpl) = "{" THEN
        IF Len(tmpl) >= 3 /\ tmpl[2] \notin {"{", "}"} /\ tmpl[3] = "}" THEN
            IF tmpl[2] \in DOMAIN args THEN
                LET rest == strfmt(SubSeq(tmpl, 4, Len(tmpl)), args, path)
                IN IF rest.ok THEN Ok(args[tmpl[2]] \o rest.v) ELSE rest
            ELSE Err([kind |-> "FmtKeyError", name |-> tmpl[2], at |-> path])
        ELSE Err([kind |-> "FmtInvalid", at |-> path])
    ELSE IF Head(tmpl) = "}" THEN Err([kind |-> "FmtInvalid", at |-> path])
    ELSE LET rest == strfmt(Tail(tmpl), args, path)
         IN IF rest.ok THEN Ok(<<Head(tmpl)>> \o rest.v) ELSE rest

ChildSeq(path, p, rev) ==
    LET names == Ordered(DOMAIN p.args, rev)
    IN [i \in 1..Len(names) |-> Append(path, names[i])]

\* the first Err of a joined list of futures, in the order of the list
FirstErr(tasks, paths) ==
    LET bad == {i \in 1..Len(paths) : tasks[paths[i]].st = "err"}
    IN IF bad = {} THEN None
       ELSE Some(tasks[paths[CHOOSE i \in bad : \A j \in bad : i <= j]].e)

\* guard_hashmap_args once every future of the join has completed:
\* args.keys() zipped with the results of args.values()
guard_hashmap_args(tasks, path, p, rev) ==
    LET names == Ordered(DOMAIN p.args, rev)
        kids == ChildSeq(path, p, rev)
        fe == FirstErr(tasks, kids)
    IN IF fe.some THEN Err(fe.v)
       ELSE Ok([n \in {names[i] : i \in 1..Len(names)} |->
                   tasks[kids[CHOOSE i \in 1..Len(names) : names[i] = n]].v])

\* an enter that loses the template on the client
FormatEnterNoTemplate(side, tasks, path, p, rev) ==
    LET args == guard_hashmap_args(tasks, path, p, rev)
    IN IF ~args.ok THEN args
       ELSE IF side = "client" THEN Ok(FormatParam(<<>>, args.v))
       ELSE strfmt(p.tmpl, args.v, path)

\* FormatGuard::enter after the join, on either end
FormatEnter(side, tasks, path, p, rev) ==
    LET args == guard_hashmap_args(tasks, path, p, rev)
    IN IF ~args.ok THEN args
       ELSE IF side = "client" THEN Ok(FormatParam(p.tmpl, args.v))
       ELSE strfmt(p.tmpl, args.v, path)

\* a pass_env that records nothing on either end
pass_env_dropped(side, passed_env, key, val) == passed_env

\* GuardStackData::pass_env: a no-op on the client
pass_env(side, passed_env, key, val) ==
    IF side = "server"
        THEN [n \in DOMAIN passed_env \cup {key} |->
                 IF n = key THEN val ELSE passed_env[n]]
        ELSE passed_env

\* a push_guard that pushes the guard whatever its enter returned
push_guard_regardless(side, S, path, r) ==
    IF ~r.ok
        THEN [S EXCEPT !.tasks[path] = [st |-> "err", e |-> r.e],
                       !.guards = Append(@, path),
                       !.log = Append(@, <<"failed", path>>)]
        ELSE [S EXCEPT !.tasks[path] = [st |-> "ok", v |-> r.v],
                       !.guards = Append(@, path),
                       !.log = Append(@, <<"entered", path>>),
                       !.passed_env =
                           IF IsTop(path) /\ path[1] = "env"
                               THEN pass_env(side, @, path[2], r.v)
                               ELSE @]

\* GuardStackData::push_guard from the return of enter on: `?`, push, pass_env
push_guard(side, S, path, r) ==
    IF ~r.ok
        THEN [S EXCEPT !.tasks[path] = [st |-> "err", e |-> r.e],
                       !.log = Append(@, <<"failed", path>>)]
        ELSE [S EXCEPT !.tasks[path] = [st |-> "ok", v |-> r.v],
                       !.guards = Append(@, path),
                       !.log = Append(@, <<"entered", path>>),
                       !.passed_env =
                           IF IsTop(path) /\ path[1] = "env"
                               THEN pass_env(side, @, path[2], r.v)
                               ELSE @]

\* a lock guard that lives on when its block has ended
data_lock_kept(S, path) == [S EXCEPT !.mutex = Some(path)]

\* `{ let data = data.lock().await; .. }`: the lock on the data is taken by
\* a block of push_guard, of an enter or of an exit, and its guard is
\* dropped where the block ends, before the next await
data_lock(S, path) ==
    [[S EXCEPT !.mutex = Some(path)] EXCEPT !.mutex = None]

RECURSIVE StartTask(_, _, _)
RECURSIVE StartAll(_, _, _)
\* the first poll of one push_guard future: guard_param, then enter up to
\* its first await on the bucket
StartTask(side, S, path) ==
    LET p == ParamAt(S.req, path)
        S0 == data_lock(S, path)
    IN
    \* data.lock().await stays pending while the lock is held
    IF S.mutex.some THEN [S EXCEPT !.tasks[path] = [st |-> "wait"]]
    ELSE IF Unaccepted(side, p) THEN [S EXCEPT !.panicked = TRUE]
    ELSE IF p.t = "FormatParam" THEN
        LET kids == ChildSeq(path, p, S.rev.fmt)
            joined(S1) ==
                IF S1.panicked \/ \E i \in 1..Len(kids) : ~Finished(S1.tasks[kids[i]])
                    THEN S1
                    ELSE CHOOSE R \in {push_guard(side, S1, path, r) :
                                          r \in {FormatEnter(side, S1.tasks, path, p,
                                                             S.rev.fmt)}} : TRUE
        IN CHOOSE R \in {joined(S1) :
                            S1 \in {StartAll(side,
                                             [S0 EXCEPT !.tasks[path] = [st |-> "wait"]],
                                             kids)}} : TRUE
    ELSE IF S0.mutex.some THEN [S0 EXCEPT !.tasks[path] = [st |-> "wait"]]
    ELSE
        LET S1 == IF side = "server" /\ is_cloud(p)
                     THEN [S0 EXCEPT !.nalloc = @ + 1,
                                    !.temppath = (path :> new_temppath(S.nalloc + 1, p.filepath)) @@ @]
                     ELSE S0
        IN IF IOEnter(side, p)
              THEN [S1 EXCEPT !.tasks[path] = [st |-> "wait"]]
              ELSE push_guard(side, S1, path,
                      IF side = "client" THEN ClientEnter(p, path)
                      ELSE ServerEnter(p, path, S1.passed_env,
                                       IF path \in DOMAIN S1.temppath
                                           THEN S1.temppath[path] ELSE <<>>))

\* the first poll of join_all: every future is polled once, in order
\* (the state that one poll leaves is worked out once, then handed on)
StartAll(side, S, paths) ==
    IF paths = <<>> \/ S.panicked THEN S
    ELSE CHOOSE R \in {StartAll(side, T, Tail(paths)) :
                          T \in {StartTask(side, S, Head(paths))}} : TRUE

\* a future completed: FormatGuard::enter of its parent resumes when it was
\* the last of the parent's join
RECURSIVE Cascade(_, _, _)
Cascade(side, S, path) ==
    IF IsTop(path) THEN S
    ELSE LET parent == Parent(path)
             p == ParamAt(S.req, parent)
             kids == ChildSeq(parent, p, S.rev.fmt)
         IN IF \E i \in 1..Len(kids) : ~Finished(S.tasks[kids[i]])
               THEN S
               ELSE CHOOSE R \in
                       {Cascade(side, T, parent) :
                           T \in {push_guard(side, S, parent, r) :
                                     r \in {FormatEnter(side, S.tasks, parent, p,
                                                        S.rev.fmt)}}} : TRUE

\* a guard_run_args that takes stdout from the front whether it is there or not
guard_run_args_unconditional(S) ==
    LET req == S.req
        list == JoinList(req)
        fe == FirstErr(S.tasks, list)
        wrapped == [i \in 1..Len(list) |-> S.tasks[list[i]].v]
        after_cmd == Tail(wrapped)
        has_out == req.stdout.some \/ req.stderr.some
        after_out == IF has_out THEN Tail(after_cmd) ELSE after_cmd
        has_err == req.stdout.some /\ req.stderr.some
        after_err == IF has_err THEN Tail(after_out) ELSE after_out
    IN IF fe.some THEN Err(fe.v)
       ELSE Ok([command |-> Head(wrapped),
                args |-> after_err,
                cwd |-> req.cwd,
                env |-> IF req.env.some
                           THEN Some([k \in DOMAIN req.env.v |->
                                         S.tasks[<<"env", k>>].v])
                           ELSE None,
                stdout |-> IF has_out THEN Some(Head(after_cmd)) ELSE None,
                stderr |-> IF has_err THEN Some(Head(after_out)) ELSE None])

\* guard_run_args once the join of command, stdout, stderr and args is
\* over: the results are popped from the front of the list
guard_run_args(S) ==
    LET req == S.req
        list == JoinList(req)
        fe == FirstErr(S.tasks, list)
        wrapped == [i \in 1..Len(list) |-> S.tasks[list[i]].v]
        after_cmd == Tail(wrapped)
        after_out == IF req.stdout.some THEN Tail(after_cmd) ELSE after_cmd
        after_err == IF req.stderr.some THEN Tail(after_out) ELSE after_out
    IN IF fe.some THEN Err(fe.v)
       ELSE Ok([command |-> Head(wrapped),
                args |-> after_err,
                cwd |-> req.cwd,
                env |-> IF req.env.some
                           THEN Some([k \in DOMAIN req.env.v |->
                                         S.tasks[<<"env", k>>].v])
                           ELSE None,
                stdout |-> IF req.stdout.some THEN Some(Head(after_cmd)) ELSE None,
                stderr |-> IF req.stderr.some THEN Some(Head(after_out)) ELSE None])

-----------------------------------------------------------------------------
(* codegen.rs: apply_middles! *)

\* client.rs: [invoke, serde] around proxy_run;
\* server.rs: [serde, invoke] around real_run
Stack(side) ==
    IF side = "client" THEN <<"invoke", "serde">> ELSE <<"serde", "invoke">>

\* a macro whose Err arm leaves the whole stack at once
AfterRequestReturn(P, r) ==
    IF r.ok THEN [P EXCEPT !.pc = "down", !.lvl = @ + 1, !.arg = r.v]
    ELSE [P EXCEPT !.pc = "ret", !.arg = r]

\* match middle.transform_request(arg).await: Ok recurses into the inner
\* stack, Err(err) => Err(err) is the value of this level
AfterRequest(P, r) ==
    IF r.ok THEN [P EXCEPT !.pc = "down", !.lvl = @ + 1, !.arg = r.v]
    ELSE [P EXCEPT !.pc = IF P.lvl = 0 THEN "ret" ELSE "up", !.arg = r]

\* ( $arg, $func, [] ) => $func($arg).await: its value goes to the
\* transform_response of the innermost middleware
AfterFunc(P, r) ==
    [P EXCEPT !.pc = IF P.lvl = 0 THEN "ret" ELSE "up", !.arg = r]

\* a macro that returns after the innermost transform_response
AfterResponseReturn(P, r) ==
    [P EXCEPT !.pc = "ret", !.lvl = @ - 1, !.arg = r]

\* let arg = middle.transform_response(arg).await; arg
AfterResponse(P, r) ==
    [P EXCEPT !.pc = IF P.lvl = 1 THEN "ret" ELSE "up", !.lvl = @ - 1, !.arg = r]

Call(m, op, arg) == [m |-> m, op |-> op, arg |-> arg]

-----------------------------------------------------------------------------
(* middles/serde *)

to_string(v) == [kind |-> "json", doc |-> v]

\* serde_json::from_str::<RunRequest>
request_from_str(s) ==
    IF s.kind = "json" /\ {"command", "args"} \subseteq DOMAIN s.doc
        THEN Ok(s.doc)
        ELSE Err([kind |-> "Decode"])

\* serde_json::from_str::<RunResponse>
response_from_str(s) ==
    IF s.kind = "json" /\ {"return_code", "exc"} \subseteq DOMAIN s.doc
        THEN Ok(s.doc)
        ELSE Err([kind |-> "Decode"])

\* serde::client_end::MiddleImpl::transform_request
ClientSerdeRequest(req) == Ok(to_string(req))

\* serde::client_end::MiddleImpl::transform_response
ClientSerdeResponse(response) ==
    IF ~response.ok THEN response
    ELSE LET r == response_from_str(response.v)
         IN IF ~r.ok THEN r
            ELSE IF r.v.exc.some
                THEN Err([kind |-> "ServerError", return_code |-> r.v.return_code,
                          exc |-> r.v.exc.v])
                ELSE Ok(r.v)

\* serde::server_end::MiddleImpl::transform_request
ServerSerdeRequest(s) == request_from_str(s)

\* serde::server_end::MiddleImpl::transform_response
ServerSerdeResponse(response) ==
    Ok(to_string(IF response.ok THEN response.v
                 ELSE RunResponse(-1, Some(response.e))))

SerdeRequest(side, arg) ==
    IF side = "client" THEN ClientSerdeRequest(arg) ELSE ServerSerdeRequest(arg)

SerdeResponse(side, arg) ==
    IF side = "client" THEN ClientSerdeResponse(arg) ELSE ServerSerdeResponse(arg)

-----------------------------------------------------------------------------
(* The bucket and the file systems.  The bucket holds one object per cloud  *)
(* key: an upload under a key that exists replaces the object.             *)

Exists(fs, k) == k \in DOMAIN fs

Put(fs, k, c) == [x \in DOMAIN fs \cup {k} |-> IF x = k THEN c ELSE fs[x]]

Remove(fs, k) == [x \in DOMAIN fs \ {k} |-> fs[x]]

NoFiles == [x \in {} |-> ""]

\* a drop that leaves the directory behind
DropTempDirKept(fs) == fs

\* Drop of the server-end middleware: its TempDir is removed recursively
DropTempDir(fs) == [x \in {y \in DOMAIN fs : y[1] # "/w/"} |-> fs[x]]

-----------------------------------------------------------------------------
(* Initial state *)

NoConv == [chain |-> <<>>, urls |-> <<>>]

NoInv ==
    [phase |-> "idle", req |-> None, rev |-> [env |-> FALSE, fmt |-> FALSE],
     envPos |-> 0, tasks |-> <<>>, guards |-> <<>>, passed_env |-> <<>>,
     nalloc |-> 0, temppath |-> <<>>, ret |-> None, out |-> <<>>,
     exits |-> <<>>, resp |-> None, log |-> <<>>, panicked |-> FALSE,
     mutex |-> None]

Position(pc) == [pc |-> pc, lvl |-> 0, arg |-> None]

InitClient ==
    \E i \in Inputs :
        /\ request = i.req
        /\ queue = i.queue
        /\ pipe = [client |-> Position("idle"), server |-> Position("off")]
        /\ wire = [queue |-> None, payload |-> None]

InitForeign ==
    \E f \in ForeignPayloads :
        /\ request = f
        /\ queue = None
        /\ pipe = [client |-> Position("off"), server |-> Position("idle")]
        /\ wire = [queue |-> Some("sh"), payload |-> Some(f)]

Init ==
    /\ InitClient \/ InitForeign
    /\ inv = [s \in Sides |-> NoInv]
    /\ calls = [s \in Sides |-> <<>>]
    /\ bucket = NoFiles
    /\ localFs = InitLocalFs
    /\ serverFs = NoFiles
    /\ child = None
    /\ conv = NoConv

-----------------------------------------------------------------------------
(* client.rs: Client::run up to the pipeline *)

\* a selection that takes the caller's queue whatever the command is
SelectQueueCallerFirst(command, q) ==
    IF q.some THEN Ok(q.v)
    ELSE IF command.t = "CmdNameParam" THEN Ok(command.name)
    ELSE Err([kind |-> "QueueMissing"])

SelectQueue(command, q) ==
    CASE command.t = "CmdNameParam" -> Ok(IF q.some THEN q.v ELSE command.name)
      [] command.t = "CmdPathParam" ->
            IF q.some THEN Ok(q.v) ELSE Err([kind |-> "QueueMissing"])
      [] OTHER -> Err([kind |-> "BadCommand"])

ClientRun ==
    /\ pipe.client.pc = "idle"
    /\ LET q == SelectQueue(request.command, queue)
       IN IF q.ok
             THEN /\ pipe' = [pipe EXCEPT !.client = [pc |-> "down", lvl |-> 0,
                                                       arg |-> request]]
                  /\ wire' = [wire EXCEPT !.queue = Some(q.v)]
             ELSE /\ pipe' = [pipe EXCEPT !.client = [pc |-> "done", lvl |-> 0,
                                                       arg |-> q]]
                  /\ wire' = wire
    /\ UNCHANGED <<request, queue, inv, calls, bucket, localFs, serverFs, child, conv>>

-----------------------------------------------------------------------------
(* transform_request of the middlewares *)

Middle(side) == Stack(side)[pipe[side].lvl + 1]

TransformRequestSerde(side) ==
    /\ pipe[side].pc = "down"
    /\ pipe[side].lvl < Len(Stack(side))
    /\ Middle(side) = "serde"
    /\ pipe' = [pipe EXCEPT ![side] =
                   AfterRequest(@, SerdeRequest(side, pipe[side].arg))]
    /\ calls' = [calls EXCEPT ![side] =
                    Append(@, Call("serde", "transform_request", pipe[side].arg))]
    /\ UNCHANGED <<request, queue, inv, bucket, localFs, serverFs, wire, child, conv>>

\* a map of two or more keys can be iterated in either direction
Directions(multi) == IF multi THEN BOOLEAN ELSE {FALSE}

HasWideFormat(req) ==
    \E q \in AllPaths(req) :
        /\ ParamAt(req, q).t = "FormatParam"
        /\ Cardinality(DOMAIN ParamAt(req, q).args) > 1

\* Middle::transform_request of an invoke middleware: guard_run_args starts
TransformRequestInvoke(side) ==
    /\ pipe[side].pc = "down"
    /\ pipe[side].lvl < Len(Stack(side))
    /\ Middle(side) = "invoke"
    /\ LET req == pipe[side].arg IN
       \E re \in Directions(Cardinality(EnvKeys(req)) > 1),
          rf \in Directions(HasWideFormat(req)) :
          inv' = [inv EXCEPT ![side] =
                     [NoInv EXCEPT !.phase = "env", !.req = req,
                                   !.rev = [env |-> re, fmt |-> rf],
                                   !.tasks = [q \in AllPaths(req) |-> [st |-> "idle"]]]]
    /\ pipe' = [pipe EXCEPT ![side].pc = "req"]
    /\ calls' = [calls EXCEPT ![side] =
                    Append(@, Call("invoke", "transform_request", pipe[side].arg))]
    /\ UNCHANGED <<request, queue, bucket, localFs, serverFs, wire, child, conv>>

EnvOrder(S) == Ordered(EnvKeys(S.req), S.rev.env)

EnvCurrent(S) == <<"env", EnvOrder(S)[S.envPos]>>

\* a panic unwinds Server::run: the middleware and its TempDir are dropped
Unwind(side, S) ==
    /\ pipe' = [pipe EXCEPT ![side].pc = IF S.panicked THEN "panic" ELSE @]
    /\ serverFs' = IF S.panicked /\ side = "server"
                      THEN DropTempDir(serverFs) ELSE serverFs

\* guard_run_args: the next turn of `for (key, arg) in env.into_iter()`
GuardEnv(side) ==
    LET S == inv[side] IN
    /\ pipe[side].pc = "req"
    /\ S.phase = "env"
    /\ S.envPos < Cardinality(EnvKeys(S.req))
    /\ S.envPos > 0 => S.tasks[EnvCurrent(S)].st = "ok"
    /\ LET S0 == [S EXCEPT !.envPos = @ + 1]
           S1 == StartTask(side, S0, EnvCurrent(S0))
       IN /\ inv' = [inv EXCEPT ![side] = S1]
          /\ Unwind(side, S1)
    /\ UNCHANGED <<request, queue, calls, bucket, localFs, wire, child, conv>>

\* guard_run_args: the env loop is over, join_all polls command, stdout,
\* stderr and args
GuardJoin(side) ==
    LET S == inv[side] IN
    /\ pipe[side].pc = "req"
    /\ S.phase = "env"
    /\ S.envPos = Cardinality(EnvKeys(S.req))
    /\ S.envPos > 0 => S.tasks[EnvCurrent(S)].st = "ok"
    /\ \E S1 \in {StartAll(side, [S EXCEPT !.phase = "join"], JoinList(S.req))} :
          /\ inv' = [inv EXCEPT ![side] = S1]
          /\ Unwind(side, S1)
    /\ UNCHANGED <<request, queue, calls, bucket, localFs, wire, child, conv>>

\* one transfer to or from the bucket has been answered
Transfer(S, op, path, ok) == [S EXCEPT !.log = Append(@, <<op, path, ok>>)]

\* an enter that drops the error of its upload and hands out the cloud param
UploadSwallowed(side, path) ==
    LET S == inv[side]
        p == ParamAt(S.req, path)
    IN /\ side = "client"
       /\ \E fault \in BOOLEAN :
            LET ok == ~fault /\ Exists(localFs, p.filepath)
            IN /\ bucket' = IF ok THEN Put(bucket, cloud_url(p), localFs[p.filepath])
                            ELSE bucket
               /\ inv' = [inv EXCEPT ![side] =
                             Cascade(side,
                                     push_guard(side, Transfer(S, "upload", path, ok),
                                                path, Ok(as_cloud(p))),
                                     path)]
       /\ UNCHANGED <<localFs, serverFs>>

\* an enter that uploads and hands the local param back
UploadUnconverted(side, path) ==
    LET S == inv[side]
        p == ParamAt(S.req, path)
    IN /\ side = "client"
       /\ \E fault \in BOOLEAN :
            LET ok == ~fault /\ Exists(localFs, p.filepath)
                r == IF ok THEN Ok(p)
                     ELSE Err([kind |-> "Upload", at |-> path])
            IN /\ bucket' = IF ok THEN Put(bucket, cloud_url(p), localFs[p.filepath])
                            ELSE bucket
               /\ inv' = [inv EXCEPT ![side] =
                             Cascade(side,
                                     push_guard(side, Transfer(S, "upload", path, ok),
                                                path, r),
                                     path)]
       /\ UNCHANGED <<localFs, serverFs>>

\* Param::upload_inplace of InLocalFileGuard::enter completes
Upload(side, path) ==
    LET S == inv[side]
        p == ParamAt(S.req, path)
    IN /\ side = "client"
       /\ \E fault \in BOOLEAN :
            LET ok == ~fault /\ Exists(localFs, p.filepath)
                r == IF ok THEN Ok(as_cloud(p))
                     ELSE Err([kind |-> "Upload", at |-> path])
            IN /\ bucket' = IF ok THEN Put(bucket, cloud_url(p), localFs[p.filepath])
                            ELSE bucket
               /\ inv' = [inv EXCEPT ![side] =
                             Cascade(side,
                                     push_guard(side, Transfer(S, "upload", path, ok),
                                                path, r),
                                     path)]
       /\ UNCHANGED <<localFs, serverFs>>

\* a download that reports Ok without writing the scratch file
DownloadSkipped(side, path) ==
    /\ side = "server"
    /\ inv' = [inv EXCEPT ![side] =
                  Cascade(side,
                          push_guard(side, Transfer(inv[side], "download", path, TRUE),
                                     path, Ok(inv[side].temppath[path])),
                          path)]
    /\ UNCHANGED <<localFs, serverFs, bucket>>

\* Param::download of InCloudFileGuard::enter completes
Download(side, path) ==
    LET S == inv[side]
        p == ParamAt(S.req, path)
    IN /\ side = "server"
       /\ \E fault \in BOOLEAN :
            LET ok == ~fault /\ Exists(bucket, cloud_url(p))
                r == IF ok THEN Ok(S.temppath[path])
                     ELSE Err([kind |-> "Download", at |-> path])
            IN /\ serverFs' = IF ok THEN Put(serverFs, S.temppath[path],
                                             bucket[cloud_url(p)])
                              ELSE serverFs
               /\ inv' = [inv EXCEPT ![side] =
                             Cascade(side,
                                     push_guard(side, Transfer(S, "download", path, ok),
                                                path, r),
                                     path)]
       /\ UNCHANGED <<localFs, bucket>>

\* the bucket answers one pending enter
EnterIO(side) ==
    /\ pipe[side].pc = "req"
    /\ ~inv[side].mutex.some
    /\ \E path \in DOMAIN inv[side].tasks :
        /\ inv[side].tasks[path].st = "wait"
        /\ IOEnter(side, ParamAt(inv[side].req, path))
        /\ Upload(side, path) \/ Download(side, path)
    /\ UNCHANGED <<request, queue, pipe, calls, wire, child, conv>>

\* guard_run_args returns: `?` inside the env loop, or the collected join
GuardReturn(side) ==
    LET S == inv[side] IN
    /\ pipe[side].pc = "req"
    /\ LET r == IF S.phase = "env" THEN Err(S.tasks[EnvCurrent(S)].e)
                ELSE guard_run_args(S)
       IN
        /\ \/ /\ S.phase = "env"
              /\ S.envPos > 0
              /\ S.tasks[EnvCurrent(S)].st = "err"
           \/ /\ S.phase = "join"
              /\ \A i \in 1..Len(JoinList(S.req)) :
                    Finished(S.tasks[JoinList(S.req)[i]])
        /\ pipe' = [pipe EXCEPT ![side] = AfterRequest(@, r)]
        /\ inv' = [inv EXCEPT ![side].phase = "returned", ![side].ret = Some(r)]
    /\ UNCHANGED <<request, queue, calls, bucket, localFs, serverFs, wire, child, conv>>

-----------------------------------------------------------------------------
(* The inner functions: proxy_run (client.rs) and real_run (server.rs) *)

\* an inner function that is called while the guards are still entering
AtFuncEarly(side) ==
    \/ pipe[side].pc = "req"
    \/ pipe[side].pc = "down" /\ pipe[side].lvl = Len(Stack(side))

AtFunc(side) ==
    pipe[side].pc = "down" /\ pipe[side].lvl = Len(Stack(side))

\* proxy_run: app.send_task(sig).await.unwrap()
SendTask ==
    /\ AtFunc("client")
    /\ calls' = [calls EXCEPT !.client = Append(@, Call("f", "call", pipe.client.arg))]
    /\ \E sent \in BOOLEAN :
        IF sent
            THEN /\ wire' = [wire EXCEPT !.payload = Some(pipe.client.arg)]
                 /\ pipe' = [pipe EXCEPT !.client.pc = "func", !.server.pc = "idle"]
            ELSE /\ wire' = wire
                 /\ pipe' = [pipe EXCEPT !.client.pc = "panic"]
    /\ UNCHANGED <<request, queue, inv, bucket, localFs, serverFs, child, conv>>

\* Server::run is handed the payload of a delivered task
ServerRun ==
    /\ pipe.server.pc = "idle"
    /\ wire.payload.some
    /\ pipe' = [pipe EXCEPT !.server = [pc |-> "down", lvl |-> 0,
                                        arg |-> wire.payload.v]]
    /\ UNCHANGED <<request, queue, inv, calls, bucket, localFs, serverFs, wire, child, conv>>

\* what the child writes into a file it creates
Written(path) == ToString(path)

\* scratch paths of output files the child may or may not create
Producible(S, recipe) ==
    {S.temppath[g] : g \in {q \in DOMAIN S.temppath :
                              ParamAt(S.req, q).t = "OutCloudFileParam"}}
    \ ((IF recipe.stdout.some THEN {recipe.stdout.v} ELSE {})
       \cup (IF recipe.stderr.some THEN {recipe.stderr.v} ELSE {}))

\* File::create(path).unwrap() of the stdout and stderr sinks
Sinks(recipe) ==
    (IF recipe.stdout.some THEN {recipe.stdout.v} ELSE {})
    \cup (IF recipe.stderr.some THEN {recipe.stderr.v} ELSE {})

\* st?.code().unwrap_or(0): a child killed by a signal has no code
ExitCodes == (0..MaxExitCode) \cup {-1}

ret_code(status) == IF status = -1 THEN 0 ELSE status

\* real_run: create the sinks, spawn, wait
RealRun ==
    LET recipe == pipe.server.arg
        S == inv.server
    IN /\ AtFunc("server")
       /\ calls' = [calls EXCEPT !.server = Append(@, Call("f", "call", recipe))]
       /\ IF <<>> \in Sinks(recipe)
             THEN /\ pipe' = [pipe EXCEPT !.server.pc = "panic"]
                  /\ serverFs' = DropTempDir(serverFs)
                  /\ child' = child
          ELSE IF recipe.command \notin Executables
             THEN /\ pipe' = [pipe EXCEPT !.server =
                                 AfterFunc(@, Err([kind |-> "Spawn"]))]
                  /\ child' = child
                  /\ serverFs' = [x \in DOMAIN serverFs \cup Sinks(recipe) |->
                                     IF x \in Sinks(recipe) THEN "" ELSE serverFs[x]]
          ELSE \E status \in ExitCodes, made \in SUBSET Producible(S, recipe) :
                  /\ pipe' = [pipe EXCEPT !.server = AfterFunc(@, Ok(ret_code(status)))]
                  /\ child' = Some(status)
                  /\ serverFs' = [x \in DOMAIN serverFs \cup Sinks(recipe) \cup made |->
                                     IF x \in Sinks(recipe) \cup made
                                         THEN Written(x) ELSE serverFs[x]]
       /\ UNCHANGED <<request, queue, inv, bucket, localFs, wire, conv>>

\* proxy_run: .wait(None).await??
WaitResult ==
    /\ pipe.client.pc = "func"
    /\ pipe.server.pc \in {"done", "panic"}
    /\ \E lost \in BOOLEAN :
        LET r == IF lost THEN Err([kind |-> "Backend"])
                 ELSE IF pipe.server.pc = "panic" THEN Err([kind |-> "TaskFailed"])
                 ELSE Ok(pipe.server.arg)
        IN pipe' = [pipe EXCEPT !.client = AfterFunc(@, r)]
    /\ UNCHANGED <<request, queue, inv, calls, bucket, localFs, serverFs, wire, child, conv>>

-----------------------------------------------------------------------------
(* transform_response of the middlewares *)

Upper(side) == Stack(side)[pipe[side].lvl]

TransformResponseSerde(side) ==
    /\ pipe[side].pc = "up"
    /\ Upper(side) = "serde"
    /\ pipe' = [pipe EXCEPT ![side] =
                   AfterResponse(@, SerdeResponse(side, pipe[side].arg))]
    /\ calls' = [calls EXCEPT ![side] =
                    Append(@, Call("serde", "transform_response", pipe[side].arg))]
    /\ UNCHANGED <<request, queue, inv, bucket, localFs, serverFs, wire, child, conv>>

\* a pop that takes the last guard only
guards_last(stack) == IF stack = <<>> THEN <<>> ELSE <<stack[Len(stack)]>>

\* a drain of the stack from its bottom
guards_fifo(stack) == stack

\* GuardStack::guards: while let Some(guard) = guards.pop() { out.push(guard) }
RECURSIVE guards(_)
guards(stack) ==
    IF stack = <<>> THEN <<>>
    ELSE <<stack[Len(stack)]>> \o guards(SubSeq(stack, 1, Len(stack) - 1))

\* exits that await the bucket on the client only
IOExitClientOnly(side, S, path, fs) ==
    side = "client"
    /\ ParamAt(S.req, path).t \in {"InLocalFileParam", "OutLocalFileParam"}

\* guards whose exit awaits the bucket
IOExit(side, S, path, fs) ==
    LET p == ParamAt(S.req, path)
    IN \/ side = "client" /\ p.t \in {"InLocalFileParam", "OutLocalFileParam"}
       \/ side = "server" /\ p.t = "OutCloudFileParam" /\ Exists(fs, S.temppath[path])

\* the first poll of one exit future
StartExit(side, S, path, fs) ==
    IF IOExit(side, S, path, fs)
        THEN [S EXCEPT !.exits = (path :> [st |-> "wait", step |-> 1]) @@ @,
                       !.log = Append(@, <<"exit", path>>)]
        ELSE [S EXCEPT !.exits = (path :> [st |-> "ok"]) @@ @,
                       !.log = @ \o <<(<<"exit", path>>), (<<"exited", path>>)>>]

\* the first poll of join_all(guards.iter().map(|guard| guard.exit(..)))
RECURSIVE StartExits(_, _, _, _)
StartExits(side, S, paths, fs) ==
    IF paths = <<>> THEN S
    ELSE StartExits(side, StartExit(side, S, Head(paths), fs), Tail(paths), fs)

\* Middle::transform_response of an invoke middleware: pop_all_guards starts
TransformResponseInvoke(side) ==
    LET S == inv[side]
        out == guards(S.guards)
    IN /\ pipe[side].pc = "up"
       /\ Upper(side) = "invoke"
       /\ ~S.mutex.some
       /\ inv' = [inv EXCEPT ![side] =
                     StartExits(side,
                                [S EXCEPT !.phase = "exit", !.guards = <<>>,
                                          !.out = out, !.resp = pipe[side].arg],
                                out, serverFs)]
       /\ pipe' = [pipe EXCEPT ![side].pc = "resp"]
       /\ calls' = [calls EXCEPT ![side] =
                       Append(@, Call("invoke", "transform_response", pipe[side].arg))]
       /\ UNCHANGED <<request, queue, bucket, localFs, serverFs, wire, child, conv>>

ExitDone(S, path, r) ==
    [S EXCEPT !.exits[path] = IF r.ok THEN [st |-> "ok"] ELSE [st |-> "err", e |-> r.e],
              !.log = Append(@, <<"exited", path>>)]

\* Param::remove_from_cloud: look the id up, delete it
remove_from_cloud(b, p, fault) ==
    IF ~fault /\ Exists(b, cloud_url(p))
        THEN [r |-> Ok(TRUE), bucket |-> Remove(b, cloud_url(p))]
        ELSE [r |-> Err([kind |-> "Remove", key |-> cloud_url(p)]), bucket |-> b]

\* an exit that drops the error of its delete
ExitInLocalFileSwallowed(side, path) ==
    LET S == inv[side]
        p == ParamAt(S.req, path)
    IN /\ side = "client"
       /\ p.t = "InLocalFileParam"
       /\ \E fault \in BOOLEAN :
            LET rm == remove_from_cloud(bucket, p, fault)
            IN /\ bucket' = rm.bucket
               /\ inv' = [inv EXCEPT ![side] =
                             ExitDone(Transfer(S, "remove", path, rm.r.ok), path,
                                      Ok(TRUE))]
       /\ UNCHANGED <<localFs, serverFs>>

\* InLocalFileGuard::exit
ExitInLocalFile(side, path) ==
    LET S == inv[side]
        p == ParamAt(S.req, path)
    IN /\ side = "client"
       /\ p.t = "InLocalFileParam"
       /\ \E fault \in BOOLEAN :
            LET rm == remove_from_cloud(bucket, p, fault)
            IN /\ bucket' = rm.bucket
               /\ inv' = [inv EXCEPT ![side] =
                             ExitDone(Transfer(S, "remove", path, rm.r.ok), path, rm.r)]
       /\ UNCHANGED <<localFs, serverFs>>

\* an exit whose download leaves the local file as it was
ExitOutLocalFileDownloadDropped(side, path) ==
    LET S == inv[side]
        p == ParamAt(S.req, path)
    IN /\ side = "client"
       /\ p.t = "OutLocalFileParam"
       /\ S.exits[path].step = 1
       /\ localFs' = localFs
       /\ \E fault \in BOOLEAN :
            IF ~fault /\ Exists(bucket, cloud_url(p))
                THEN inv' = [inv EXCEPT ![side] =
                                [Transfer(S, "download", path, TRUE)
                                    EXCEPT !.exits[path].step = 2]]
                ELSE inv' = [inv EXCEPT ![side] =
                                ExitDone(Transfer(S, "download", path, FALSE), path,
                                         Err([kind |-> "Download",
                                              key |-> cloud_url(p)]))]
       /\ UNCHANGED <<bucket, serverFs>>

\* OutLocalFileGuard::exit: download_inplace(..).await?
ExitOutLocalFileDownload(side, path) ==
    LET S == inv[side]
        p == ParamAt(S.req, path)
    IN /\ side = "client"
       /\ p.t = "OutLocalFileParam"
       /\ S.exits[path].step = 1
       /\ \E fault \in BOOLEAN :
            IF ~fault /\ Exists(bucket, cloud_url(p))
                THEN /\ localFs' = Put(localFs, p.filepath, bucket[cloud_url(p)])
                     /\ inv' = [inv EXCEPT ![side] =
                                   [Transfer(S, "download", path, TRUE)
                                       EXCEPT !.exits[path].step = 2]]
                ELSE /\ localFs' = localFs
                     /\ inv' = [inv EXCEPT ![side] =
                                   ExitDone(Transfer(S, "download", path, FALSE), path,
                                            Err([kind |-> "Download",
                                                 key |-> cloud_url(p)]))]
       /\ UNCHANGED <<bucket, serverFs>>

\* OutLocalFileGuard::exit: remove_from_cloud(..).await.unwrap_or_default()
ExitOutLocalFileRemove(side, path) ==
    LET S == inv[side]
        p == ParamAt(S.req, path)
    IN /\ side = "client"
       /\ p.t = "OutLocalFileParam"
       /\ S.exits[path].step = 2
       /\ \E fault \in BOOLEAN :
            LET rm == remove_from_cloud(bucket, p, fault)
            IN /\ bucket' = rm.bucket
               /\ inv' = [inv EXCEPT ![side] =
                             ExitDone(Transfer(S, "remove", path, rm.r.ok), path,
                                      Ok(TRUE))]
       /\ UNCHANGED <<localFs, serverFs>>

\* an exit that reports Ok without storing anything
ExitOutCloudFileSkipped(side, path) ==
    /\ side = "server"
    /\ bucket' = bucket
    /\ inv' = [inv EXCEPT ![side] =
                  ExitDone(Transfer(inv[side], "upload", path, TRUE), path, Ok(TRUE))]
    /\ UNCHANGED <<localFs, serverFs>>

\* OutCloudFileGuard::exit: the scratch path exists, upload(..).await?
ExitOutCloudFile(side, path) ==
    LET S == inv[side]
        p == ParamAt(S.req, path)
    IN /\ side = "server"
       /\ \E fault \in BOOLEAN :
            /\ bucket' = IF fault THEN bucket
                         ELSE Put(bucket, cloud_url(p), serverFs[S.temppath[path]])
            /\ inv' = [inv EXCEPT ![side] =
                          ExitDone(Transfer(S, "upload", path, ~fault), path,
                                   IF fault THEN Err([kind |-> "Upload",
                                                      key |-> cloud_url(p)])
                                   ELSE Ok(TRUE))]
       /\ UNCHANGED <<localFs, serverFs>>

\* the bucket answers one pending exit
ExitIO(side) ==
    /\ pipe[side].pc = "resp"
    /\ \E path \in DOMAIN inv[side].exits :
        /\ inv[side].exits[path].st = "wait"
        /\ \/ ExitInLocalFile(side, path)
           \/ ExitOutLocalFileDownload(side, path)
           \/ ExitOutLocalFileRemove(side, path)
           \/ ExitOutCloudFile(side, path)
    /\ UNCHANGED <<request, queue, pipe, calls, wire, child, conv>>

\* pop_all_guards: join_all(..).await.into_iter().collect()
pop_all_guards(S) ==
    LET bad == {i \in 1..Len(S.out) : S.exits[S.out[i]].st = "err"}
    IN IF bad = {} THEN Ok(TRUE)
       ELSE Err(S.exits[S.out[CHOOSE i \in bad : \A j \in bad : i <= j]].e)

\* a transform_response that rebuilds a successful response with code 0
ClientInvokeResponseReset(S) ==
    IF S.resp.ok THEN Ok(RunResponse(0, None)) ELSE S.resp

\* a transform_response that returns the response whatever the exits did
ClientInvokeResponseUnchanged(S) == S.resp

\* invoke::Middle::transform_response (client end): pop_all_guards()?; response
ClientInvokeResponse(S) ==
    LET popped == pop_all_guards(S)
    IN IF ~popped.ok THEN popped ELSE S.resp

\* a transform_response that looks at the inner result before the exits
ServerInvokeResponseInnerFirst(S) ==
    IF ~S.resp.ok THEN S.resp
    ELSE IF ~pop_all_guards(S).ok THEN pop_all_guards(S)
    ELSE Ok(RunResponse(S.resp.v, None))

\* server_end::MiddleImpl::transform_response:
\* pop_all_guards()?; Ok(RunResponse { return_code: response?, exc: None })
ServerInvokeResponse(S) ==
    LET popped == pop_all_guards(S)
    IN IF ~popped.ok THEN popped
       ELSE IF ~S.resp.ok THEN S.resp
       ELSE Ok(RunResponse(S.resp.v, None))

\* the popped guards are dropped with the Vec: a TempPath removes its file
DropGuards(side, S, fs) ==
    IF side = "server"
        THEN [x \in DOMAIN fs \ {S.temppath[g] : g \in DOMAIN S.temppath
                                                     \cap {S.out[i] : i \in 1..Len(S.out)}}
                 |-> fs[x]]
        ELSE fs

\* pop_all_guards returns and transform_response with it
PopReturn(side) ==
    LET S == inv[side] IN
    /\ pipe[side].pc = "resp"
    /\ \A i \in 1..Len(S.out) : Finished(S.exits[S.out[i]])
    /\ pipe' = [pipe EXCEPT ![side] =
                   AfterResponse(@, IF side = "client" THEN ClientInvokeResponse(S)
                                    ELSE ServerInvokeResponse(S))]
    /\ inv' = [inv EXCEPT ![side].phase = "exited"]
    /\ serverFs' = DropGuards(side, S, serverFs)
    /\ UNCHANGED <<request, queue, calls, bucket, localFs, wire, child, conv>>

-----------------------------------------------------------------------------
(* The pipelines return *)

\* Client::run: res.map(|r| r.return_code)
ClientReturn ==
    /\ pipe.client.pc = "ret"
    /\ pipe' = [pipe EXCEPT !.client.pc = "done",
                            !.client.arg = IF @.ok THEN Ok(@.v.return_code) ELSE @]
    /\ UNCHANGED <<request, queue, inv, calls, bucket, localFs, serverFs, wire, child, conv>>

\* Server::run: res.expect("Unreachable: ..."); the middlewares are dropped
ServerReturn ==
    /\ pipe.server.pc = "ret"
    /\ pipe' = [pipe EXCEPT !.server.pc = IF pipe.server.arg.ok THEN "done" ELSE "panic",
                            !.server.arg = IF @.ok THEN @.v ELSE @]
    /\ serverFs' = DropTempDir(serverFs)
    /\ UNCHANGED <<request, queue, inv, calls, bucket, localFs, wire, child, conv>>

-----------------------------------------------------------------------------
(* Specification *)

Next ==
    \/ ClientRun
    \/ \E side \in Sides : TransformRequestSerde(side)
    \/ \E side \in Sides : TransformRequestInvoke(side)
    \/ \E side \in Sides : GuardEnv(side)
    \/ \E side \in Sides : GuardJoin(side)
    \/ \E side \in Sides : EnterIO(side)
    \/ \E side \in Sides : GuardReturn(side)
    \/ SendTask
    \/ ServerRun
    \/ RealRun
    \/ WaitResult
    \/ \E side \in Sides : TransformResponseSerde(side)
    \/ \E side \in Sides : TransformResponseInvoke(side)
    \/ \E side \in Sides : ExitIO(side)
    \/ \E side \in Sides : PopReturn(side)
    \/ ClientReturn
    \/ ServerReturn

Spec == Init /\ [][Next]_vars

\* the executor polls a future that can go on, and every operation on the
\* bucket is answered
Polled ==
    \A side \in Sides :
        /\ WF_vars(GuardEnv(side) \/ GuardJoin(side) \/ EnterIO(side)
                      \/ GuardReturn(side))
        /\ WF_vars(ExitIO(side) \/ PopReturn(side))

LiveSpec == Spec /\ Polled

-----------------------------------------------------------------------------
(* params.rs on its own: the conversions of one Param *)

Panic == [t |-> "(panic)"]

IsFile(p) == is_local(p) \/ is_cloud(p)

\* the Params handed to the conversions
ParamPool ==
    {StrParam(<<>>), Dash, EnvParam("K"), RemoteEnvParam("K"), Shell,
     CmdNameParam("nonesuch"), CmdPathParam(<<"/bin/sh">>),
     FormatParam(CatTmpl, [n \in {"i", "o"} |-> IF n = "i" THEN InA ELSE OutX]),
     FormatParam(<<"echo">>, <<>>)}
    \cup UNION {{InLocalFileParam(f, h), OutLocalFileParam(f, h),
                 InCloudFileParam(f, h), OutCloudFileParam(f, h)} :
                    f \in {fa, fb, fx, fy, <<>>}, h \in {Host, "h2"}}

ParamInit ==
    /\ conv \in {[chain |-> <<p>>, urls |-> <<>>] : p \in ParamPool}
    /\ request = None
    /\ queue = None
    /\ pipe = [s \in Sides |-> Position("off")]
    /\ wire = [queue |-> None, payload |-> None]
    /\ inv = [s \in Sides |-> NoInv]
    /\ calls = [s \in Sides |-> <<>>]
    /\ bucket = NoFiles
    /\ localFs = InitLocalFs
    /\ serverFs = NoFiles
    /\ child = None

\* Param::as_cloud applied to the last Param of the chain
AsCloud ==
    /\ conv.chain # <<>>
    /\ Len(conv.chain) <= MaxChain
    /\ conv.chain[Len(conv.chain)] # Panic
    /\ conv' = [conv EXCEPT !.chain = Append(@, as_cloud(conv.chain[Len(conv.chain)]))]
    /\ UNCHANGED <<request, queue, pipe, inv, calls, bucket, localFs, serverFs,
                   wire, child>>

\* Param::cloud_url of the next Param of the chain; hostname() and
\* filepath() are unreachable!() on a non-file variant
CloudUrl ==
    /\ Len(conv.urls) < Len(conv.chain)
    /\ LET p == conv.chain[Len(conv.urls) + 1]
       IN conv' = [conv EXCEPT !.urls =
                      Append(@, IF p # Panic /\ IsFile(p) THEN cloud_url(p) ELSE Panic)]
    /\ UNCHANGED <<request, queue, pipe, inv, calls, bucket, localFs, serverFs,
                   wire, child>>

ParamNext == AsCloud \/ CloudUrl

ParamSpec == ParamInit /\ [][ParamNext]_vars

-----------------------------------------------------------------------------
(* Properties of the middleware stack *)

IsPrefix(a, b) == Len(a) <= Len(b) /\ a = SubSeq(b, 1, Len(a))

\* the stages run so far on one side, in order
Ops(side) == [i \in 1..Len(calls[side]) |-> <<calls[side][i].m, calls[side][i].op>>]

Requests(stack, k) == [i \in 1..k |-> <<stack[i], "transform_request">>]

Responses(stack, k) == [i \in 1..k |-> <<stack[k + 1 - i], "transform_response">>]

\* m1.req .. mn.req, f, mn.resp .. m1.resp
Stages(stack) ==
    Requests(stack, Len(stack)) \o <<(<<"f", "call">>)>> \o Responses(stack, Len(stack))

\* m1.req .. mk.req, m(k-1).resp .. m1.resp
ShortCircuit(stack, k) == Requests(stack, k) \o Responses(stack, k - 1)

\* what the transform_request recorded as the i-th call returned, once it has
RequestResult(side, i) ==
    IF calls[side][i].m = "serde" THEN Some(SerdeRequest(side, calls[side][i].arg))
    ELSE inv[side].ret

RequestFailed(side, i) ==
    /\ i <= Len(calls[side])
    /\ calls[side][i].op = "transform_request"
    /\ RequestResult(side, i).some
    /\ ~RequestResult(side, i).v.ok

NoRequestFailed(side) == \A i \in 1..Len(calls[side]) : ~RequestFailed(side, i)

\* C1: with a stack [m1..mn] around f and every transform_request
\* succeeding, the stages run in the order m1.transform_request, ..,
\* mn.transform_request, f, mn.transform_response, .., m1.transform_response,
\* each exactly once: the stages run so far are always a prefix of that
\* sequence, and all of it once apply_middles! has returned.
C1_StagesInOrder ==
    \A side \in Sides :
        NoRequestFailed(side) =>
            /\ IsPrefix(Ops(side), Stages(Stack(side)))
            /\ pipe[side].pc = "ret" => Ops(side) = Stages(Stack(side))

C1_Witness ==
    /\ pipe.client.pc = "ret"
    /\ pipe.server.pc = "done"
    /\ \A side \in Sides : NoRequestFailed(side) /\ Len(calls[side]) = 5

-----------------------------------------------------------------------------
(* Properties of the client's request transformation *)

Logged(side, e) == \E i \in 1..Len(inv[side].log) : inv[side].log[i] = e

\* transform_request of the invoke middleware returned an Err
InvokeRequestFailed(side) == inv[side].ret.some /\ ~inv[side].ret.v.ok

\* the run began at Client::run, with a RunRequest
Proxied == pipe.client.pc # "off"

InLocalPaths(req) == {q \in AllPaths(req) : ParamAt(req, q).t = "InLocalFileParam"}

OutLocalPaths(req) == {q \in AllPaths(req) : ParamAt(req, q).t = "OutLocalFileParam"}

\* C3: in the client invoke middleware, when a guard's enter fails during
\* transform_request, the exits of the guards already entered have run by
\* the time the error has propagated out of the stack, and no object the
\* request uploaded is left in the store.
C3_EnteredGuardsReleased ==
    (pipe.client.pc \in {"ret", "done"} /\ InvokeRequestFailed("client")) =>
        \A q \in AllPaths(request) :
            /\ Logged("client", <<"entered", q>>) => Logged("client", <<"exited", q>>)
            /\ Logged("client", <<"upload", q, TRUE>>) =>
                  ~Exists(bucket, cloud_url(ParamAt(request, q)))

\* C4: when the upload of an InLocalFile param fails during the client's
\* transform_request, proxy_run is not called, nothing is handed to the
\* broker, and Client::run returns an Err.
C4_NoSendAfterFailedUpload ==
    (Proxied /\ \E q \in InLocalPaths(request) :
                    Logged("client", <<"upload", q, FALSE>>)) =>
        /\ \A i \in 1..Len(calls.client) : calls.client[i].m # "f"
        /\ ~wire.payload.some
        /\ pipe.client.pc \notin {"func", "panic"}
        /\ pipe.client.pc = "done" => ~pipe.client.arg.ok

C4_Witness ==
    /\ pipe.client.pc = "done"
    /\ ~pipe.client.arg.ok
    /\ \E q \in InLocalPaths(request) :
          /\ Logged("client", <<"upload", q, FALSE>>)
          /\ pipe.client.arg.e = [kind |-> "Upload", at |-> q]

\* C5: Server::run returns a serialized RunResponse for every payload and
\* never panics.
C5_AlwaysResponds ==
    /\ pipe.server.pc # "panic"
    /\ pipe.server.pc = "done" => response_from_str(pipe.server.arg).ok

-----------------------------------------------------------------------------
(* Properties of a successful client run *)

\* Client::run returned Ok(return_code)
ClientOk == pipe.client.pc = "done" /\ pipe.client.arg.ok

Key(q) == cloud_url(ParamAt(request, q))

\* the server end uploaded the scratch file of position q, with its content
ServerStored(q, content) ==
    /\ Logged("server", <<"upload", q, TRUE>>)
    /\ content = Written(inv.server.temppath[q])

\* no InLocalFile param of the request has the cloud key of position q
KeyOfOutputOnly(q) == \A i \in InLocalPaths(request) : Key(i) # Key(q)

\* C6: after a successful client run, no object is left in the store under
\* the cloud key of any InLocalFile param of the request.
C6_InputsRemoved ==
    ClientOk => \A q \in InLocalPaths(request) : ~Exists(bucket, Key(q))

C6_Witness ==
    /\ ClientOk
    /\ \E q \in InLocalPaths(request) :
          Logged("client", <<"upload", q, TRUE>>) /\ Logged("client", <<"remove", q, TRUE>>)

\* C7 as stated: after a successful client run, the local file of each
\* OutLocalFile param holds exactly the content the server stored under its
\* cloud key, and no object is left under that key.
C7_OutputsFetchedAndRemoved ==
    ClientOk =>
        \A q \in OutLocalPaths(request) :
            /\ Exists(localFs, ParamAt(request, q).filepath)
            /\ ServerStored(q, localFs[ParamAt(request, q).filepath])
            /\ ~Exists(bucket, Key(q))

\* C7: after a successful client run, the local file of each OutLocalFile
\* param whose cloud key is not also the key of an InLocalFile param holds
\* exactly the content the server stored under that key; an object is left
\* under the key only when the delete that follows the download failed.
C7_OutputsFetched ==
    ClientOk =>
        \A q \in OutLocalPaths(request) :
            KeyOfOutputOnly(q) =>
                /\ Exists(localFs, ParamAt(request, q).filepath)
                /\ ServerStored(q, localFs[ParamAt(request, q).filepath])
                /\ Exists(bucket, Key(q)) => Logged("client", <<"remove", q, FALSE>>)

C7_Witness ==
    /\ ClientOk
    /\ \E q \in OutLocalPaths(request) :
          /\ KeyOfOutputOnly(q)
          /\ ServerStored(q, localFs[ParamAt(request, q).filepath])
          /\ Exists(bucket, Key(q))
          /\ Logged("client", <<"remove", q, FALSE>>)

-----------------------------------------------------------------------------
(* Properties of the guards' exits *)

Reverse(seq) == [i \in 1..Len(seq) |-> seq[Len(seq) + 1 - i]]

\* the positions of the guard events of one kind, in the order they happened
Events(side, tag) ==
    LET sel == SelectSeq(inv[side].log, LAMBDA e : e[1] = tag)
    IN [i \in 1..Len(sel) |-> sel[i][2]]

\* where in the log the event is; 0 when it has not happened
When(side, e) ==
    IF Logged(side, e)
        THEN CHOOSE i \in 1..Len(inv[side].log) : inv[side].log[i] = e
        ELSE 0

\* C8: in the transform_response of either invoke middleware every guard's
\* exit runs to completion, whether the inner result is Ok or Err and
\* whether or not other exits fail; the server's OutCloudFile guard whose
\* scratch file exists has its upload attempted on every such path.
C8_EveryExitCompletes ==
    \A side \in Sides :
        /\ inv[side].phase = "exited" =>
              \A q \in AllPaths(inv[side].req) :
                  Logged(side, <<"entered", q>>) =>
                      Logged(side, <<"exit", q>>) /\ Logged(side, <<"exited", q>>)
        /\ (side = "server" /\ inv[side].phase = "exit") =>
              \A q \in AllPaths(inv[side].req) :
                  ( /\ Logged(side, <<"entered", q>>)
                    /\ ParamAt(inv[side].req, q).t = "OutCloudFileParam"
                    /\ Exists(serverFs, inv[side].temppath[q]) ) =>
                      \/ q \in DOMAIN inv[side].exits /\ inv[side].exits[q].st = "wait"
                      \/ \E ok \in BOOLEAN : Logged(side, <<"upload", q, ok>>)

C8_Witness ==
    /\ inv.server.phase = "exited"
    /\ ~inv.server.resp.ok
    /\ Logged("server", <<"upload", <<"stdout">>, TRUE>>)
    /\ inv.client.phase = "exited"
    /\ ~inv.client.resp.ok
    /\ Len(inv.client.out) = 2
    /\ Logged("client", <<"download", <<"stdout">>, FALSE>>)
    /\ Logged("client", <<"exited", <<"command">>>>)

\* C9 as stated: a guard pushed later has its exit run before the exit of
\* any guard pushed earlier: when the exit of a guard has completed, the
\* exit of every guard pushed after it completed before.
C9_ExitsRunLIFO ==
    \A side \in Sides :
        LET pushed == Events(side, "entered") IN
        \A i, j \in 1..Len(pushed) :
            (i < j /\ Logged(side, <<"exited", pushed[i]>>)) =>
                /\ Logged(side, <<"exited", pushed[j]>>)
                /\ When(side, <<"exited", pushed[j]>>) < When(side, <<"exited", pushed[i]>>)

\* C9: the exits are started in LIFO order of the pushes: once
\* transform_response has popped the stack, the exits were first polled
\* from the last-pushed guard to the first-pushed one.
C9_ExitsStartLIFO ==
    \A side \in Sides :
        inv[side].phase \in {"exit", "exited"} =>
            Events(side, "exit") = Reverse(Events(side, "entered"))

C9_Witness ==
    LET pushed == Events("client", "entered") IN
    /\ inv.client.phase = "exited"
    /\ \E i, j \in 1..Len(pushed) :
          /\ i < j
          /\ When("client", <<"exit", pushed[j]>>) < When("client", <<"exit", pushed[i]>>)
          /\ When("client", <<"exited", pushed[i]>>) < When("client", <<"exited", pushed[j]>>)

\* C10: when the inner result is Ok(response) and the download of an
\* OutLocalFile guard fails in its exit, the client's transform_response
\* returns an Err in place of the response.
C10_DownloadFailureOverrides ==
    ( /\ inv.client.phase = "exited"
      /\ inv.client.resp.ok
      /\ \E q \in OutLocalPaths(request) : Logged("client", <<"download", q, FALSE>>) ) =>
        /\ pipe.client.pc \in {"ret", "done"}
        /\ ~pipe.client.arg.ok

C10_Witness ==
    /\ pipe.client.pc = "done"
    /\ inv.client.phase = "exited"
    /\ inv.client.resp.ok
    /\ \E q \in OutLocalPaths(request) :
          /\ Logged("client", <<"download", q, FALSE>>)
          /\ pipe.client.arg = Err([kind |-> "Download", key |-> Key(q)])

-----------------------------------------------------------------------------
(* Properties of the client-end transform_response *)

\* the client-end invoke transform_response has just returned
ClientResponded == pipe.client.pc = "ret" /\ inv.client.phase = "exited"

FailedTransfer(side, op) ==
    \E q \in AllPaths(inv[side].req) : Logged(side, <<op, q, FALSE>>)

AllExitsOk(side) ==
    \A i \in 1..Len(inv[side].out) : inv[side].exits[inv[side].out[i]].st = "ok"

\* C11: a failed delete-from-cloud in a client-side exit, of an InLocalFile's
\* object or after an OutLocalFile download, is swallowed: with no other
\* failure in the exits, transform_response returns the inner response it
\* received.
C11_DeleteFailuresSwallowed ==
    (ClientResponded /\ FailedTransfer("client", "remove")
                     /\ ~FailedTransfer("client", "download")) =>
        pipe.client.arg = inv.client.resp

\* C12: when every guard's exit succeeds, the client-end invoke
\* transform_response returns exactly the result it received, Ok(response)
\* or Err(e).
C12_ResponseUnchanged ==
    (ClientResponded /\ AllExitsOk("client")) => pipe.client.arg = inv.client.resp

C12_Witness ==
    /\ ClientResponded
    /\ AllExitsOk("client")
    /\ Len(inv.client.out) >= 2
    /\ \E q \in InLocalPaths(request) : Logged("client", <<"remove", q, TRUE>>)
    /\ pipe.client.arg = Ok(RunResponse(1, None))

\* C13: when the result handed to the client-end invoke transform_response
\* is Err(e), every guard is still popped and exited and the failures of
\* that cleanup are swallowed: the caller receives Err(e).
C13_CleanupKeepsOriginalError ==
    (ClientResponded /\ ~inv.client.resp.ok) =>
        /\ \A q \in AllPaths(request) :
              Logged("client", <<"entered", q>>) => Logged("client", <<"exited", q>>)
        /\ pipe.client.arg = inv.client.resp

-----------------------------------------------------------------------------
(* Properties of the server-end transform_request *)

\* the request names a command the palette lacks
PaletteMiss ==
    /\ Proxied
    /\ request.command.t = "CmdNameParam"
    /\ request.command.name \notin DOMAIN Palette

\* C14: when the command is CmdName{name} and the palette lacks name, the
\* process is never launched, the server's serialized response has
\* return_code -1 and an exc naming name and listing the palette, the
\* client's serde middleware turns it into an Err and Client::run returns Err.
C14_PaletteMissReported ==
    PaletteMiss =>
        /\ \A i \in 1..Len(calls.server) : calls.server[i].m # "f"
        /\ pipe.server.pc = "done" =>
              LET r == response_from_str(pipe.server.arg) IN
              /\ r.ok
              /\ r.v.return_code = -1
              /\ r.v.exc.some
              /\ r.v.exc.v.kind = "CommandNotFound"
              /\ r.v.exc.v.name = request.command.name
              /\ r.v.exc.v.palette = DOMAIN Palette
        /\ \A i \in 1..Len(calls.client) :
              (calls.client[i].m = "invoke" /\ calls.client[i].op = "transform_response") =>
                  ~calls.client[i].arg.ok
        /\ pipe.client.pc = "done" => ~pipe.client.arg.ok

C14_Witness ==
    /\ PaletteMiss
    /\ pipe.server.pc = "done"
    /\ pipe.client.pc = "done"
    /\ Logged("server", <<"download", <<"args", "1">>, FALSE>>)
    /\ \E i \in 1..Len(calls.client) :
          /\ calls.client[i].m = "invoke"
          /\ calls.client[i].op = "transform_response"
          /\ calls.client[i].arg.e.kind = "ServerError"
          /\ calls.client[i].arg.e.exc.name = "nonesuch"

\* C15: in the server-end transform_request every entry of the env map has
\* been resolved and inserted into the passed-env map before the enter of
\* command, stdout, stderr, an element of args or a param nested in them
\* starts.
C15_EnvResolvedFirst ==
    inv.server.phase # "idle" =>
        \A q \in AllPaths(inv.server.req) :
            (q[1] # "env" /\ inv.server.tasks[q].st # "idle") =>
                \A k \in EnvKeys(inv.server.req) :
                    /\ inv.server.tasks[<<"env", k>>].st = "ok"
                    /\ k \in DOMAIN inv.server.passed_env
                    /\ inv.server.passed_env[k] = inv.server.tasks[<<"env", k>>].v

C15_Witness ==
    /\ inv.server.phase = "join"
    /\ Cardinality(EnvKeys(inv.server.req)) = 2
    /\ <<"args", "2">> \in DOMAIN inv.server.tasks
    /\ inv.server.tasks[<<"args", "2">>].st = "ok"
    /\ DOMAIN inv.server.passed_env = EnvKeys(inv.server.req)

\* the server-end transform_request returned Ok(recipe)
Prepared == inv.server.ret.some /\ inv.server.ret.v.ok

Recipe == inv.server.ret.v.v

\* the slot of the recipe that the top-level position above q was resolved into
Slot(q) ==
    CASE q[1] = "command" -> Recipe.command
      [] q[1] = "stdout" -> Recipe.stdout.v
      [] q[1] = "stderr" -> Recipe.stderr.v
      [] q[1] = "args" ->
            Recipe.args[CHOOSE i \in 1..Len(Recipe.args) : ToString(i) = q[2]]

Contains(seq, sub) ==
    \E i \in 0..(Len(seq) - Len(sub)) : SubSeq(seq, i + 1, i + Len(sub)) = sub

\* the positions outside the env map that hold Env{k} for a key k of the map
EnvRefs(req) ==
    {q \in AllPaths(req) :
        /\ q[1] # "env"
        /\ ParamAt(req, q).t = "EnvParam"
        /\ ParamAt(req, q).name \in EnvKeys(req)}

\* the reference at q resolved to the string of the env entry it names
ResolvedToEntry(q) ==
    LET k == ParamAt(inv.server.req, q).name IN
    /\ inv.server.tasks[q].v = Recipe.env.v[k]
    /\ IF IsTop(q) THEN Slot(q) = Recipe.env.v[k]
                   ELSE Contains(Slot(q), Recipe.env.v[k])

\* C16 as stated: for every key k of the env map, every reference Env{k}
\* in args, stdout, stderr or nested in a Format resolves in the recipe to
\* the string that env[k] resolved to.
C16_EnvRefsResolveToEntry ==
    Prepared => \A q \in EnvRefs(inv.server.req) : ResolvedToEntry(q)

\* C16: for every key k of the env map that the worker's process
\* environment does not define, every reference Env{k} in args, stdout,
\* stderr or nested in a Format resolves in the recipe to the string that
\* env[k] resolved to.
C16_EnvRefsResolveUnlessInOs ==
    Prepared =>
        \A q \in EnvRefs(inv.server.req) :
            ParamAt(inv.server.req, q).name \notin DOMAIN ServerOsEnv =>
                ResolvedToEntry(q)

C16_Witness ==
    /\ Prepared
    /\ Recipe.env.some
    /\ "K" \in DOMAIN Recipe.env.v
    /\ Recipe.env.v["K"] = <<"pw">>
    /\ {<<"args", "1", "p">>, <<"args", "2">>} \subseteq EnvRefs(inv.server.req)
    /\ Recipe.args = << <<"echo ", "pw">>, <<"pw">> >>

-----------------------------------------------------------------------------
(* Properties of the server-end transform_response *)

\* the server-end invoke transform_response has just returned
ServerResponded == pipe.server.pc = "up" /\ inv.server.phase = "exited"

FailedExits(S) == {i \in 1..Len(S.out) : S.exits[S.out[i]].st = "err"}

\* C17: the server-end invoke transform_response(result) returns Err(the
\* first exit error) when an exit fails, even for result = Ok(code);
\* otherwise Ok(RunResponse{return_code: code, exc: None}) for Ok(code);
\* otherwise Err(e) for Err(e).
C17_ServerResponse ==
    ServerResponded =>
        LET S == inv.server
            bad == FailedExits(S)
        IN IF bad # {}
              THEN pipe.server.arg =
                      Err(S.exits[S.out[CHOOSE i \in bad : \A j \in bad : i <= j]].e)
           ELSE IF S.resp.ok
              THEN pipe.server.arg = Ok(RunResponse(S.resp.v, None))
           ELSE pipe.server.arg = S.resp

C17_Witness ==
    /\ ServerResponded
    /\ ~inv.server.resp.ok
    /\ Cardinality(FailedExits(inv.server)) = 1
    /\ pipe.server.arg = Err([kind |-> "Upload", key |-> cloud_url(OutX)])

\* the positions of the request that hold a param of variant t
PathsOf(req, t) == {q \in AllPaths(req) : ParamAt(req, q).t = t}

\* the server's exits have all completed and its transform_response, about
\* to return, returns Ok; the guards still hold their scratch files
ServerHandledOk ==
    /\ pipe.server.pc = "resp"
    /\ inv.server.phase = "exit"
    /\ \A i \in 1..Len(inv.server.out) : Finished(inv.server.exits[inv.server.out[i]])
    /\ ServerInvokeResponse(inv.server).ok

\* the bucket holds under the cloud key of q the content of q's scratch file
StoredFromScratch(q) ==
    LET p == ParamAt(inv.server.req, q)
        t == inv.server.temppath[q]
    IN /\ Exists(bucket, cloud_url(p))
       /\ Exists(serverFs, t)
       /\ bucket[cloud_url(p)] = serverFs[t]

\* C18 as stated: after a successful server-side handling of a request,
\* for every OutCloudFile of the request an object exists in the bucket under
\* its cloud key, holding the content of its scratch file.
C18_OutputsStored ==
    ServerHandledOk =>
        \A q \in PathsOf(inv.server.req, "OutCloudFileParam") : StoredFromScratch(q)

\* C18: after a successful server-side handling of a request, for every
\* OutCloudFile of the request whose scratch file exists when the guards
\* exit, an object exists in the bucket under its cloud key, holding the
\* content of that scratch file.
C18_ProducedOutputsStored ==
    ServerHandledOk =>
        \A q \in PathsOf(inv.server.req, "OutCloudFileParam") :
            Exists(serverFs, inv.server.temppath[q]) => StoredFromScratch(q)

C18_Witness ==
    /\ ServerHandledOk
    /\ \E q \in PathsOf(inv.server.req, "OutCloudFileParam") :
          /\ q[1] = "args"
          /\ StoredFromScratch(q)
          /\ Logged("server", <<"upload", q, TRUE>>)

\* C19: on the server, for every InCloudFile of the request the download of
\* its cloud object to its scratch path has completed before the process is
\* launched, and at launch the scratch file holds exactly the content stored
\* under the cloud key.
C19_InputsDownloadedBeforeLaunch ==
    AtFunc("server") =>
        \A q \in PathsOf(inv.server.req, "InCloudFileParam") :
            LET p == ParamAt(inv.server.req, q)
                t == inv.server.temppath[q]
            IN /\ Logged("server", <<"download", q, TRUE>>)
               /\ Exists(serverFs, t)
               /\ Exists(bucket, cloud_url(p))
               /\ serverFs[t] = bucket[cloud_url(p)]

C19_Witness ==
    /\ AtFunc("server")
    /\ Cardinality(PathsOf(inv.server.req, "InCloudFileParam")) >= 2

-----------------------------------------------------------------------------
(* Properties of Client::run *)

\* Client::run has selected a queue or has failed to
Dispatched == Proxied /\ pipe.client.pc # "idle"

\* Client::run failed before the pipeline was entered
RunRejected ==
    /\ pipe.client.pc = "done"
    /\ ~pipe.client.arg.ok
    /\ calls.client = <<>>
    /\ wire = [queue |-> None, payload |-> None]

\* C20 as stated: Client.run selects the queue by this rule only: if the
\* caller supplies a queue, that queue is used (whatever the variant of
\* command); otherwise, if command = CmdName{name}, the queue is name;
\* otherwise run fails.
C20_QueueRule ==
    Dispatched =>
        IF queue.some THEN wire.queue = queue
        ELSE IF request.command.t = "CmdNameParam"
            THEN wire.queue = Some(request.command.name)
        ELSE RunRejected

\* C20: Client.run selects the queue by this rule only: if command is
\* neither a CmdName nor a CmdPath, run fails, with or without a queue
\* from the caller; otherwise, if the caller supplies a queue, that queue is
\* used; otherwise, if command = CmdName{name}, the queue is name; otherwise
\* run fails.
C20_QueueRuleForCommands ==
    Dispatched =>
        IF request.command.t \notin {"CmdNameParam", "CmdPathParam"} THEN RunRejected
        ELSE IF queue.some THEN wire.queue = queue
        ELSE IF request.command.t = "CmdNameParam"
            THEN wire.queue = Some(request.command.name)
        ELSE RunRejected

C20_Witness ==
    /\ Dispatched
    /\ request.command.t = "StrParam"
    /\ queue.some
    /\ RunRejected
    /\ pipe.client.arg.e.kind = "BadCommand"

-----------------------------------------------------------------------------
(* Properties of Server::run *)

\* Server::run returned its serialized response
ServerDone == pipe.server.pc = "done"

\* the RunResponse that Server::run returned
Response == pipe.server.arg.doc

\* the child was launched and waited for
Launched == child.some

\* the child was killed by a signal: its ExitStatus has no code
Signaled == child = Some(-1)

\* C21: the return_code reported for a launched process is zero only when
\* the child succeeded and is the child's actual exit code otherwise; a
\* non-zero exit is reported with return_code # 0 and exc = None, not as an
\* error; and whenever the server cannot produce an exit code the response
\* carries return_code = -1 together with a non-null exc.
C21_ExitCodeReported ==
    /\ ServerDone =>
          /\ Response.return_code = 0 => child = Some(0)
          /\ (Launched /\ ~Response.exc.some) => Response.return_code = child.v
          /\ (~Launched \/ Signaled) =>
                Response.return_code = -1 /\ Response.exc.some
    /\ (pipe.server.pc = "up" /\ inv.server.phase = "returned" /\ Launched
          /\ ~Signaled) =>
          pipe.server.arg = Ok(child.v)

\* C22: every client-side failure, a broker enqueue (send_task) failure
\* and a failure while waiting for the task result included, is returned
\* from Client.run as Err(message): Client.run always returns either
\* Ok(exit_code) or Err and never panics.
C22_RunNeverPanics ==
    Proxied =>
        /\ pipe.client.pc # "panic"
        /\ pipe.client.pc = "done" =>
              \/ pipe.client.arg.ok /\ pipe.client.arg.v \in Int
              \/ ~pipe.client.arg.ok

-----------------------------------------------------------------------------
(* Properties of the client-end transform_request *)

\* the client-end transform_request returned Ok(rewritten request)
Rewritten == Proxied /\ inv.client.ret.some /\ inv.client.ret.v.ok

Rewrite == inv.client.ret.v.v

\* C23 as stated: the client-end invoke transform_request passes a
\* RemoteEnv{name} param through verbatim: the rewritten request carries
\* RemoteEnv{name} (same variant, same name) at the same position.
C23_RemoteEnvVerbatim ==
    Rewritten =>
        \A q \in PathsOf(request, "RemoteEnvParam") :
            ParamAt(Rewrite, q) = ParamAt(request, q)

\* C23: the client-end invoke transform_request turns a RemoteEnv{name}
\* param into Env{name}: the rewritten request carries Env{name} (same
\* name) at the same position.
C23_RemoteEnvBecomesEnv ==
    Rewritten =>
        \A q \in PathsOf(request, "RemoteEnvParam") :
            ParamAt(Rewrite, q) = EnvParam(ParamAt(request, q).name)

C23_Witness ==
    /\ Rewritten
    /\ {<<"args", "1", "p">>, <<"args", "2">>} \subseteq PathsOf(request, "RemoteEnvParam")
    /\ ParamAt(Rewrite, <<"args", "1", "p">>) = EnvParam("K")
    /\ Rewrite.args[2] = EnvParam("K")

-----------------------------------------------------------------------------
(* Properties of the Param conversions *)

\* as_cloud returned on the i-th Param of the chain
Converted(i) == Len(conv.chain) > i /\ conv.chain[i + 1] # Panic

\* C24 as stated: for every Param p (of any variant),
\* as_cloud(as_cloud(p)) == as_cloud(p).
C24_AsCloudIdempotentOnAll ==
    /\ Len(conv.chain) >= 2 => Converted(1)
    /\ Len(conv.chain) >= 3 => Converted(2) /\ conv.chain[3] = conv.chain[2]

\* C24: for every file Param p (InLocalFile, OutLocalFile, InCloudFile,
\* OutCloudFile), as_cloud(as_cloud(p)) == as_cloud(p).
C24_AsCloudIdempotent ==
    (conv.chain # <<>> /\ IsFile(conv.chain[1])) =>
        /\ Len(conv.chain) >= 2 => Converted(1)
        /\ Len(conv.chain) >= 3 => Converted(2) /\ conv.chain[3] = conv.chain[2]

C24_Witness ==
    /\ Len(conv.chain) = 3
    /\ conv.chain[1] = InB
    /\ conv.chain[2] # conv.chain[1]
    /\ conv.chain[3] = conv.chain[2]

\* the cloud variant of the direction of a file Param
CloudVariant(p) == IF is_input(p) THEN "InCloudFileParam" ELSE "OutCloudFileParam"

\* C25: for every file Param p, as_cloud(p) is the cloud variant of the
\* same direction (InLocalFile -> InCloudFile, OutLocalFile -> OutCloudFile,
\* cloud variants unchanged) with the same (hostname, filepath), so
\* cloud_key(p) == cloud_key(as_cloud(p)) == "@<hostname>:<filepath>".
C25_AsCloudKeepsKey ==
    (conv.chain # <<>> /\ IsFile(conv.chain[1])) =>
        LET p == conv.chain[1] IN
        /\ Len(conv.chain) >= 2 =>
              /\ conv.chain[2] = [t |-> CloudVariant(p), filepath |-> p.filepath,
                                  hostname |-> p.hostname]
              /\ is_cloud(p) => conv.chain[2] = p
        /\ \A i \in 1..Len(conv.urls) :
              i <= 2 => conv.urls[i] = <<"@", p.hostname, ":", p.filepath>>

C25_Witness ==
    /\ Len(conv.urls) >= 2
    /\ conv.chain[1] = OutY
    /\ conv.chain[2] = OutCloudFileParam(fy, Host)
    /\ conv.urls[1] = conv.urls[2]

\* the positions of req at or below q that hold a param of one of the variants
Under(req, q, variants) ==
    {r \in AllPaths(req) : IsPrefix(q, r) /\ ParamAt(req, r).t \in variants}

FileVariants ==
    {"InLocalFileParam", "OutLocalFileParam", "InCloudFileParam", "OutCloudFileParam"}

EnvVariants == {"EnvParam", "RemoteEnvParam"}

\* the bucket operations the client made for positions at or below q
Transfers(side, q) ==
    {i \in 1..Len(inv[side].log) :
        Len(inv[side].log[i]) = 3 /\ IsPrefix(q, inv[side].log[i][2])}

\* a Format without nested file params leaves the bucket alone, and a
\* request without file params gets the inner function's result back
NoFileNoEffect ==
    /\ Proxied /\ inv.client.phase # "idle" =>
          \A q \in PathsOf(request, "FormatParam") :
              Under(request, q, FileVariants) = {} => Transfers("client", q) = {}
    /\ (ClientResponded /\ \A t \in TopPaths(request) :
                               Under(request, t, FileVariants) = {}) =>
          /\ pipe.client.arg = inv.client.resp
          /\ bucket = NoFiles
          /\ localFs = InitLocalFs

\* C26 as stated: a Format param with no nested file params is transformed
\* to itself by the client-end invoke transform_request (same tmpl, same
\* args map), performs no bucket operation, and contributes no exit action,
\* so for a request without file params the client-end invoke middleware
\* composed around an inner function returns exactly the inner function's
\* result.
C26_NoFileFormatUnchanged ==
    /\ Rewritten =>
          \A q \in PathsOf(request, "FormatParam") :
              Under(request, q, FileVariants) = {} =>
                  ParamAt(Rewrite, q) = ParamAt(request, q)
    /\ NoFileNoEffect

\* C26: a Format param whose nested params are neither file params nor Env
\* or RemoteEnv params is transformed to itself by the client-end invoke
\* transform_request (same tmpl, same args map); a Format param with no
\* nested file params performs no bucket operation and contributes no exit
\* action, so for a request without file params the client-end invoke
\* middleware, once its transform_request returned Ok, returns exactly the
\* inner function's result.
C26_PlainFormatUnchanged ==
    /\ Rewritten =>
          \A q \in PathsOf(request, "FormatParam") :
              Under(request, q, FileVariants \cup EnvVariants) = {} =>
                  ParamAt(Rewrite, q) = ParamAt(request, q)
    /\ NoFileNoEffect

C26_Witness ==
    /\ ClientResponded
    /\ Rewritten
    /\ <<"args", "2">> \in PathsOf(request, "FormatParam")
    /\ Under(request, <<"args", "2">>, FileVariants \cup EnvVariants) = {}
    /\ \A t \in TopPaths(request) : Under(request, t, FileVariants) = {}
    /\ Rewrite.args[2] = request.args[2]
    /\ pipe.client.arg = Ok(RunResponse(0, None))

\* the client-end transform_request has just returned Ok
JustRewritten ==
    Rewritten /\ pipe.client.pc = "down" /\ pipe.client.lvl = 1

\* C27: when the client-end invoke transform_request returns Ok, every
\* InLocalFile/OutLocalFile of the request (those nested in a Format, stdout
\* and stderr included) has been replaced at its position by the cloud
\* variant of the same direction with the same (hostname, filepath), and for
\* every InLocalFile the bucket already holds the content of the local file
\* under its cloud key.
C27_LocalsReplacedAndUploaded ==
    /\ Rewritten =>
          \A q \in InLocalPaths(request) \cup OutLocalPaths(request) :
              LET p == ParamAt(request, q)
              IN ParamAt(Rewrite, q) =
                    [t |-> IF p.t = "InLocalFileParam" THEN "InCloudFileParam"
                                                      ELSE "OutCloudFileParam",
                     filepath |-> p.filepath, hostname |-> p.hostname]
    /\ JustRewritten =>
          \A q \in InLocalPaths(request) :
              LET p == ParamAt(request, q)
              IN /\ Exists(bucket, cloud_url(p))
                 /\ Exists(localFs, p.filepath)
                 /\ bucket[cloud_url(p)] = localFs[p.filepath]

C27_Witness ==
    /\ JustRewritten
    /\ <<"args", "2", "i">> \in InLocalPaths(request)
    /\ <<"args", "2", "o">> \in OutLocalPaths(request)
    /\ bucket = (cloud_url(InA) :> "A")
    /\ Rewrite.args[2].args = [n \in {"i", "o"} |->
                                  IF n = "i" THEN InCloudFileParam(fa, Host)
                                             ELSE OutCloudFileParam(fx, Host)]

-----------------------------------------------------------------------------
(* Properties of the server-end guards *)

\* the positions of the server's request whose guard has been entered
Entered(t) ==
    {q \in PathsOf(inv.server.req, t) :
        q \in DOMAIN inv.server.tasks /\ Finished(inv.server.tasks[q])}

\* C28: on the server, Env{name} resolves to the OS environment value of
\* name if it is set; otherwise to the passed-env value of name if present;
\* otherwise to the empty string - and never fails.
C28_ServerEnvOrder ==
    inv.server.phase # "idle" =>
        \A q \in Entered("EnvParam") :
            LET name == ParamAt(inv.server.req, q).name
                task == inv.server.tasks[q]
                passed == inv.server.passed_env
            IN /\ task.st = "ok"
               /\ IF name \in DOMAIN ServerOsEnv THEN task.v = ServerOsEnv[name]
                  ELSE IF q[1] = "env"
                      THEN task.v = <<>>
                           \/ (name \in DOMAIN passed /\ task.v = passed[name])
                  ELSE IF name \in DOMAIN passed THEN task.v = passed[name]
                  ELSE task.v = <<>>

C28_Witness ==
    /\ Prepared
    /\ {<<"args", "1", "i">>, <<"args", "1", "o">>, <<"args", "2">>}
          \subseteq Entered("EnvParam")
    /\ inv.server.passed_env = [n \in {"K"} |-> <<"pw">>]
    /\ Recipe.args = << <<"/home/s">>, <<"pw">> >>
    /\ inv.server.tasks[<<"args", "1", "o">>].v = <<>>

\* the server's guards are exiting: they, and the scratch files they own,
\* are not yet dropped
ServerExiting == pipe.server.pc = "resp" /\ inv.server.phase = "exit"

\* the OutCloudFile positions of the server's request whose exit has completed
ServerExited ==
    {q \in PathsOf(inv.server.req, "OutCloudFileParam") :
        q \in DOMAIN inv.server.exits /\ Finished(inv.server.exits[q])}

\* the exit at q called upload
UploadTried(q) == \E ok \in BOOLEAN : Logged("server", <<"upload", q, ok>>)

\* an object under the key of q that the server did not store
Residue(q) ==
    /\ Exists(bucket, cloud_url(ParamAt(inv.server.req, q)))
    /\ ~\E r \in PathsOf(inv.server.req, "OutCloudFileParam") :
          /\ Logged("server", <<"upload", r, TRUE>>)
          /\ cloud_url(ParamAt(inv.server.req, r)) = cloud_url(ParamAt(inv.server.req, q))

\* C29: on server-side exit, an OutCloudFile guard uploads its scratch path
\* to its cloud key if and only if the scratch path exists at exit time;
\* when the command did not produce the file, the exit succeeds silently
\* and creates no object in the bucket.
C29_UploadIffProduced ==
    ServerExiting =>
        \A q \in ServerExited :
            LET key == cloud_url(ParamAt(inv.server.req, q))
                scratch == inv.server.temppath[q]
            IN /\ UploadTried(q) <=> Exists(serverFs, scratch)
               /\ Logged("server", <<"upload", q, TRUE>>) =>
                     Exists(bucket, key) /\ bucket[key] = serverFs[scratch]
               /\ ~Exists(serverFs, scratch) =>
                     /\ inv.server.exits[q].st = "ok"
                     /\ Residue(q) =>
                           \E r \in PathsOf(inv.server.req, "InCloudFileParam") :
                               cloud_url(ParamAt(inv.server.req, r)) = key

C29_Witness ==
    /\ ServerExiting
    /\ \E q \in ServerExited :
        /\ inv.server.resp = Ok(0)
        /\ ~Exists(serverFs, inv.server.temppath[q])
        /\ ~UploadTried(q)
        /\ inv.server.exits[q].st = "ok"
        /\ ~Exists(bucket, cloud_url(ParamAt(inv.server.req, q)))

\* C30: when a RemoteEnv{name} param reaches the server-end invoke
\* transform_request, the server resolves it exactly as it resolves
\* Env{name} (OS env, else passed-env, else empty string).
C30_RemoteEnvAsEnv ==
    inv.server.phase # "idle" =>
        \A q \in PathsOf(inv.server.req, "RemoteEnvParam") :
            /\ ~inv.server.panicked
            /\ pipe.server.pc # "panic"
            /\ Finished(inv.server.tasks[q]) =>
                  inv.server.tasks[q] =
                      [st |-> "ok",
                       v |-> ServerEnvEnter(ParamAt(inv.server.req, q).name,
                                            inv.server.passed_env)]

-----------------------------------------------------------------------------
(* Properties of the server's scratch directory *)

\* the files inside the scratch directory of the server-end middleware
Scratch == {x \in DOMAIN serverFs : x[1] = "/w/"}

\* Server::run is over, by a return or by a panic: its middlewares are dropped
ServerDropped == pipe.server.pc \in {"done", "panic"}

\* C31: when the server-end invoke middleware instance is dropped - after a
\* successful run, after a failed transform_request, or after a failed
\* launch - its scratch directory and every scratch file in it (downloaded
\* inputs, produced outputs, stdout/stderr sinks) no longer exist.
C31_ScratchRemoved == ServerDropped => Scratch = {}

\* a transform_request that failed after one of its downloads had succeeded
C31_Witness ==
    /\ ServerDropped
    /\ InvokeRequestFailed("server")
    /\ \E q \in PathsOf(inv.server.req, "InCloudFileParam") :
          Logged("server", <<"download", q, TRUE>>)
    /\ Scratch = {}

\* Path::file_name of a filepath, "" when it has none
Basename(filepath) ==
    IF filepath = <<>> THEN <<>> ELSE <<filepath[Len(filepath)]>>

\* the scratch path at q was allocated and nothing was written to it since:
\* an input not yet downloaded, an output before the launch
Untouched(q) ==
    \/ inv.server.tasks[q].st \in {"idle", "wait"}
    \/ /\ ParamAt(inv.server.req, q).t = "OutCloudFileParam"
       /\ ~\E i \in 1..Len(calls.server) : calls.server[i].m = "f"

-----------------------------------------------------------------------------
(* Properties of the server-end rendering of templates *)

\* the places of str where a placeholder {name} stands
Placeholders(str) ==
    {i \in 1..(Len(str) - 2) : str[i] = "{" /\ str[i + 2] = "}"}

\* the Formats of the server's request whose nested guards all entered
Renderable ==
    {q \in PathsOf(inv.server.req, "FormatParam") :
        /\ Finished(inv.server.tasks[q])
        /\ \A n \in DOMAIN ParamAt(inv.server.req, q).args :
              inv.server.tasks[Append(q, n)].st = "ok"}

\* a placeholder of the template names no arg: the enter fails
UnknownNameFails(q) ==
    LET p == ParamAt(inv.server.req, q)
    IN (\E i \in Placeholders(p.tmpl) : p.tmpl[i + 1] \notin DOMAIN p.args) =>
           inv.server.tasks[q].st = "err"

\* the rendered string has no placeholder naming an arg
NoneLeft(q) ==
    LET p == ParamAt(inv.server.req, q)
        out == inv.server.tasks[q].v
    IN \A i \in Placeholders(out) : out[i + 1] \notin DOMAIN p.args

\* no resolved arg value of the Format at q contains a brace
BraceFree(q) ==
    \A n \in DOMAIN ParamAt(inv.server.req, q).args :
        LET v == inv.server.tasks[Append(q, n)].v
        IN \A i \in 1..Len(v) : v[i] \notin {"{", "}"}

-----------------------------------------------------------------------------
(* Properties of guard_run_args on either end *)

\* the invoke transform_request of a side returned Ok
Returned(side) == inv[side].ret.some /\ inv[side].ret.v.ok

\* what the guard at position q of a side's request entered to
Image(side, q) == inv[side].tasks[q].v

\* an optional field of the output is the transform of the same field
SameOption(side, field, out) ==
    IF inv[side].req[field].some THEN out = Some(Image(side, <<field>>))
                                 ELSE out = None

\* C34: the invoke transform_request preserves positions and keys for
\* every combination of present/absent stdout, stderr and env: the output
\* command, stdout and stderr are the transforms of the input command,
\* stdout and stderr (absent stays absent), output args[i] is the transform
\* of input args[i] for every i with the same length, env and Format args
\* keep the same key set with each value the transform of the value under
\* that key, and cwd is unchanged.
C34_PositionsPreserved ==
    \A side \in Sides :
        Returned(side) =>
            LET req == inv[side].req
                out == inv[side].ret.v.v
            IN /\ out.command = Image(side, <<"command">>)
               /\ SameOption(side, "stdout", out.stdout)
               /\ SameOption(side, "stderr", out.stderr)
               /\ Len(out.args) = Len(req.args)
               /\ \A i \in 1..Len(req.args) :
                     out.args[i] = Image(side, <<"args", ToString(i)>>)
               /\ out.env.some = req.env.some
               /\ req.env.some =>
                     /\ DOMAIN out.env.v = DOMAIN req.env.v
                     /\ \A k \in DOMAIN req.env.v :
                           out.env.v[k] = Image(side, <<"env", k>>)
               /\ out.cwd = req.cwd
               /\ side = "client" =>
                     \A q \in PathsOf(req, "FormatParam") :
                         LET p == ParamAt(req, q)
                             r == ParamAt(out, q)
                         IN /\ r.t = "FormatParam"
                            /\ r.tmpl = p.tmpl
                            /\ DOMAIN r.args = DOMAIN p.args
                            /\ \A n \in DOMAIN p.args :
                                  r.args[n] = Image(side, Append(q, n))

\* stderr without stdout, on both ends
C34_Witness ==
    /\ Returned("client")
    /\ Returned("server")
    /\ ~request.stdout.some
    /\ inv.client.ret.v.v.stderr = Some(OutCloudFileParam(fy, Host))
    /\ inv.server.ret.v.v.stderr = Some(inv.server.temppath[<<"stderr">>])
    /\ inv.server.ret.v.v.args = << <<"-c">> >>

-----------------------------------------------------------------------------
(* Order of enters, the task and exits in a client run *)

\* the places of the client's calls where an operation of a stage stands
CallsOf(m, op) ==
    {i \in 1..Len(calls.client) :
        calls.client[i].m = m /\ calls.client[i].op = op}

\* proxy_run was called: the task is about to be sent or was sent
Sending == CallsOf("f", "call") # {}

\* the result of proxy_run, the broker's answer, went up the stack
Answered ==
    /\ pipe.client.pc \notin {"func", "panic"}
    /\ \E i \in CallsOf("f", "call"), j \in CallsOf("serde", "transform_response") :
          i < j

\* C35: in a client run, the task is sent to the broker only after the
\* enter of every param of the request has completed (every InLocalFile
\* upload is finished), and no guard's exit - the deletion of an
\* InLocalFile's cloud object or the download of an OutLocalFile - starts
\* before the broker's result for that request has been received; for each
\* param, its exit never starts before its own enter has completed.
C35_EnterSendExit ==
    Proxied =>
        /\ (Sending \/ wire.payload.some) =>
              \A q \in AllPaths(request) :
                  /\ inv.client.tasks[q].st = "ok"
                  /\ Logged("client", <<"entered", q>>)
                  /\ q \in InLocalPaths(request) =>
                        Logged("client", <<"upload", q, TRUE>>)
        /\ \A q \in AllPaths(request) :
              /\ Logged("client", <<"exit", q>>) =>
                    /\ Answered
                    /\ Logged("client", <<"entered", q>>)
                    /\ When("client", <<"entered", q>>) < When("client", <<"exit", q>>)
              /\ \A ok \in BOOLEAN :
                    (Logged("client", <<"remove", q, ok>>)
                       \/ Logged("client", <<"download", q, ok>>)) =>
                        Logged("client", <<"exit", q>>)

C35_Witness ==
    /\ Proxied
    /\ Answered
    /\ Cardinality(InLocalPaths(request)) = 2
    /\ \A q \in InLocalPaths(request) : Logged("client", <<"remove", q, TRUE>>)

-----------------------------------------------------------------------------
(* Order of the exits of a Format and of its nested args *)

\* the guards that exited, or began to, on one end
Exiting(side) == {Events(side, "exit")[i] : i \in 1..Len(Events(side, "exit"))}

\* the guards of the params nested, at any depth, in the Format at q
Nested(side, q) ==
    {c \in Exiting(side) : Len(q) < Len(c) /\ IsPrefix(q, c)}

\* C36 as stated: the exits of the guards of the nested args of a Format
\* run before the exit of the guard of that Format itself, at every
\* nesting depth.
C36_NestedExitFirst ==
    \A side \in Sides :
        \A q \in Exiting(side) : \A c \in Nested(side, q) :
            /\ When(side, <<"exit", c>>) < When(side, <<"exit", q>>)
            /\ Logged(side, <<"exited", q>>) =>
                  /\ Logged(side, <<"exited", c>>)
                  /\ When(side, <<"exited", c>>) < When(side, <<"exited", q>>)

\* C36: the guard of a Format is pushed after the guards of its nested
\* args, so its exit, which does nothing, is started and completes before
\* the exit of any guard of its nested args is started, at every nesting
\* depth.
C36_FormatExitsFirst ==
    \A side \in Sides :
        \A q \in Exiting(side) : \A c \in Nested(side, q) :
            /\ When(side, <<"entered", c>>) < When(side, <<"entered", q>>)
            /\ Logged(side, <<"exited", q>>)
            /\ When(side, <<"exited", q>>) < When(side, <<"exit", c>>)

C36_Witness ==
    \E q, r, c \in Exiting("client") :
        /\ r \in Nested("client", q)
        /\ c \in Nested("client", r)
        /\ Logged("client", <<"remove", c, TRUE>>)
        /\ Logged("client", <<"exited", c>>)

-----------------------------------------------------------------------------
(* The guard stack of an invoke middleware *)

\* the guards on the stack of one end
OnStack(side) == {inv[side].guards[i] : i \in 1..Len(inv[side].guards)}

\* how often the exit of a guard was started
ExitCount(side, q) ==
    Cardinality({i \in 1..Len(inv[side].log) : inv[side].log[i] = <<"exit", q>>})

\* transform_response has popped the stack of that end
Popped(side) == inv[side].phase \in {"exit", "exited"}

\* the middleware after pop_all_guards polled the exits once more
Again(side) ==
    StartExits(side, inv[side], guards(inv[side].guards), serverFs)

\* C37: a guard is on the stack only if its enter has succeeded, and a
\* guard whose enter failed is never pushed and never exited;
\* pop_all_guards takes every guard off the stack before it runs the
\* exits, so the exit of each entered guard runs at most once, the stack
\* is empty after any transform_response, and a second transform_response
\* on the same middleware runs no exit.
C37_GuardStack ==
    \A side \in Sides :
        /\ Len(inv[side].guards) = Cardinality(OnStack(side))
        /\ \A q \in OnStack(side) :
              /\ inv[side].tasks[q].st = "ok"
              /\ Logged(side, <<"entered", q>>)
        /\ \A q \in DOMAIN inv[side].tasks :
              /\ ExitCount(side, q) <= 1
              /\ Logged(side, <<"exit", q>>) => Logged(side, <<"entered", q>>)
              /\ Logged(side, <<"failed", q>>) =>
                    /\ q \notin OnStack(side)
                    /\ ~Logged(side, <<"exit", q>>)
                    /\ ~Logged(side, <<"entered", q>>)
        /\ Popped(side) =>
              /\ inv[side].guards = <<>>
              /\ Again(side).log = inv[side].log
              /\ Again(side).exits = inv[side].exits

C37_Witness ==
    /\ inv.client.phase = "exited"
    /\ Len(Events("client", "exited")) >= 2
    /\ \E q \in DOMAIN inv.server.tasks : Logged("server", <<"failed", q>>)
    /\ inv.server.guards # <<>>

-----------------------------------------------------------------------------
(* The lock on the data of an invoke middleware *)

\* transform_request of the invoke middleware is resolving the params
Resolving(side) == pipe[side].pc = "req" /\ inv[side].phase \in {"env", "join"}

\* transform_response of the invoke middleware is running the exits
Releasing(side) == inv[side].phase = "exit"

\* the ends whose invoke middleware is in transform_request or in
\* transform_response
AtWork == {side \in Sides : Resolving(side) \/ Releasing(side)}

-----------------------------------------------------------------------------
(* The recipe of the server over the orders of the env map *)

\* the env loop of guard_run_args over the keys in a given order
RECURSIVE EnvLoop(_, _)
EnvLoop(S, keys) ==
    IF keys = <<>> THEN S
    ELSE EnvLoop(StartTask("server", S, <<"env", Head(keys)>>), Tail(keys))

\* the env entries the server resolves for its request when the map is
\* iterated in the given direction
EnvUnder(rev) ==
    LET req == inv.server.req
        S0 == [NoInv EXCEPT !.phase = "env", !.req = req,
                            !.tasks = [q \in AllPaths(req) |-> [st |-> "idle"]]]
        S1 == EnvLoop(S0, Ordered(EnvKeys(req), rev))
    IN [k \in EnvKeys(req) |-> S1.tasks[<<"env", k>>]]

\* C39: for a fixed request, OS environment, palette and bucket content,
\* every execution of the server-end transform_request yields the same
\* recipe: the env entries of the recipe do not depend on the order in
\* which the env map is iterated, also when the value of an entry is an
\* Env of another key of the same map.
C39_RecipeDeterministic ==
    (Prepared /\ Recipe.env.some) =>
        \A rev \in BOOLEAN : \A k \in DOMAIN Recipe.env.v :
            /\ EnvUnder(rev)[k].st = "ok"
            /\ EnvUnder(rev)[k].v = Recipe.env.v[k]

-----------------------------------------------------------------------------
(* An output the command did not write, from end to end *)

\* the OutCloudFile positions among the args of the server's request
ArgOutputs == {q \in PathsOf(inv.server.req, "OutCloudFileParam") : q[1] = "args"}

\* the exit of the server's guard at q is over and did not call upload
Skipped(q) == Logged("server", <<"exited", q>>) /\ ~UploadTried(q)

\* the OutLocalFile positions of the client's request whose upload the
\* server skipped
Unwritten == {q \in OutLocalPaths(request) : q[1] = "args" /\ Skipped(q)}

\* the client's exits are over and Client::run has returned
ClientFinished == pipe.client.pc = "done" /\ inv.client.phase = "exited"

\* every guard the client entered has exited
AllExited ==
    \A i \in 1..Len(Events("client", "entered")) :
        Logged("client", <<"exited", Events("client", "entered")[i]>>)

\* on the server, an output among the args whose scratch file is missing
\* when its guard exits is skipped without an error, and the server
\* answers Ok when no other exit failed
MissingIsSkipped ==
    (Launched /\ ServerExiting) =>
        /\ \A q \in ArgOutputs \cap ServerExited :
              ~Exists(serverFs, inv.server.temppath[q]) =>
                  /\ ~UploadTried(q)
                  /\ inv.server.exits[q].st = "ok"
        /\ (\A i \in 1..Len(inv.server.out) :
                 inv.server.exits[inv.server.out[i]].st = "ok")
              => ServerInvokeResponse(inv.server).ok

=============================================================================
